---- MODULE Spec2Model ----
(***************************************************************************)
(* Model of the OpenAI service of api-client-everything-ai:                *)
(* the completion client callOpenAIChat (retry loop, failure               *)
(* classification, backoff) and the analyze orchestrator with its four     *)
(* sub-tasks (preProcessJD, parseJobMetadata, callOpenAI,                  *)
(* generateTailoredResume).                                                *)
(*                                                                         *)
(* One step of the model is what the code runs between two awaits: the     *)
(* completion of an HTTP attempt (axios.post settles) or the expiry of a   *)
(* backoff timer, followed by everything that runs synchronously after it. *)
(*                                                                         *)
(* Spec is one call of analyze. SubTaskSpec is one call of a single        *)
(* sub-task (preprocessResume included), answered by a wider family of     *)
(* replies; sanitizeText is modelled character by character. HttpSpec is   *)
(* one request to the Express application: validateRequest, the handler    *)
(* of the route, the service it awaits, and errorHandler. SanitizerSpec    *)
(* is one call of sanitizeText. ConcurrentSpec is several completion calls *)
(* in flight at once, each with its own locals. ReplaySpec serves one      *)
(* request twice, under two values of the key and the same upstream        *)
(* outcomes.                                                               *)
(* FairSpec is one analyze call under the assumption that every attempt    *)
(* completes and every timer fires.                                        *)
(* ValidationSpec is validateRequest on its own.                           *)
(***************************************************************************)
EXTENDS Integers, Sequences, FiniteSets, TLC

VARIABLES
    apiKey,              \* process.env.OPENAI_API_KEY
    metadataHtmlString,  \* third argument of analyze
    pc,                  \* position of analyze: the sub-task it awaits, or its outcome
    structuredJD,        \* analyze: const structuredJD
    parsedMetadata,      \* analyze: let parsedMetadata
    analysisResult,      \* analyze: the value returned
    analyzeError,        \* analyze: the value thrown
    subError,            \* the value the last failing sub-task threw
    cpc,                 \* position of callOpenAIChat
    attempt,             \* callOpenAIChat: loop variable
    lastError,           \* callOpenAIChat: let lastError
    chatResult,          \* callOpenAIChat: content returned / value thrown
    outcomes,            \* transport outcomes of the attempts of the current call
    waited,              \* backoff delays (ms) awaited by the current call
    issued,              \* sub-task of every HTTP attempt issued so far
    invoked,             \* sub-task invocations so far, with the structured JD passed
    failed,              \* sub-tasks whose catch block has run (console.error)
    resumeText,          \* argument of preprocessResume
    sanitizedResume,     \* preprocessResume: const sanitizedResume
    subResult,           \* outcome of a sub-task called on its own
    req,                 \* the HTTP request: its path and its JSON body
    analyzeController,   \* which analyze.controller the build wires to /analyze
    NODE_ENV,            \* process.env.NODE_ENV
    sent,                \* the responses sent for the request (status and body)
    unsafeText,          \* argument of a call of sanitizeText
    cleanText,           \* sanitizeText: the value returned
    cleanTwice,          \* sanitizeText of that value: the second pass
    calls,               \* the locals of each completion call in flight at once
    upstream,            \* what the transport did with each attempt of the run
    firstRun             \* key, upstream outcomes and responses of an earlier run

vars == <<apiKey, metadataHtmlString, pc, structuredJD, parsedMetadata,
          analysisResult, analyzeError, subError, cpc, attempt, lastError,
          chatResult, outcomes, waited, issued, invoked, failed, resumeText,
          sanitizedResume, subResult, req, analyzeController, NODE_ENV, sent,
          unsafeText, cleanText, cleanTwice, calls, upstream, firstRun>>

clientVars == <<cpc, attempt, lastError, chatResult, outcomes, waited, issued>>

\* the variables of a sub-task called on its own
soloVars == <<resumeText, sanitizedResume, subResult>>

\* the variables of the HTTP layer
httpVars == <<req, analyzeController, NODE_ENV, sent>>

\* the variables of sanitizeText called on its own
sanitizerVars == <<unsafeText, cleanText, cleanTwice>>

\* the variables the HTTP layer leaves alone, besides those of the service
\* the variables of a request served twice
replayVars == <<upstream, firstRun>>

beyondHttp == <<sanitizerVars, calls, replayVars>>

\* the variables the service leaves alone
edgeVars == <<httpVars, beyondHttp>>

----------------------------------------------------------------------------
(* Program constants *)

\* mutant: the loop allows a fourth attempt
MAX_RETRIES_Four == 3 + 1
MAX_RETRIES == 3
RETRY_DELAY_MS == 1000

\* axiosError.response?.status of an error that carries no response
NoStatus == 0

\* JavaScript undefined / null where the code tests for them
Undefined == [t |-> "undefined"]
Null == [t |-> "null"]

----------------------------------------------------------------------------
(* Values *)

Str(s) == [t |-> "string", s |-> s]
Arr(a) == [t |-> "array", a |-> a]
Num(n) == [t |-> "number", n |-> n]
NaN == [t |-> "NaN"]
Obj(f) == [t |-> "object", f |-> f]
\* a string the code inspects character by character
Text(c) == [t |-> "text", c |-> c]
Bool(b) == [t |-> "boolean", b |-> b]
\* the number i + d/10 that is not an integer (i >= 0, d in 1..9)
Dec(i, d) == [t |-> "decimal", i |-> i, d |-> d]

\* text.substring(0, n) and text.slice(0, n) on the characters of a text, n >= 0
Substring(c, n) == SubSeq(c, 1, IF n < Len(c) THEN n ELSE Len(c))

\* JavaScript truthiness, as used by `x || default` and `!x`
Truthy(v) ==
    CASE v.t = "undefined" -> FALSE
      [] v.t = "null" -> FALSE
      [] v.t = "string" -> v.s # ""
      [] v.t = "text" -> v.c # <<>>
      [] v.t = "number" -> v.n # 0
      [] v.t = "NaN" -> FALSE
      [] v.t = "boolean" -> v.b
      [] OTHER -> TRUE

\* a || b
Or(a, b) == IF Truthy(a) THEN a ELSE b

\* obj.field of a parsed JSON value that is neither null nor undefined
\* (undefined when the key is absent or the value is not an object)
Get(obj, field) ==
    IF obj.t = "object" /\ field \in DOMAIN obj.f THEN obj.f[field] ELSE Undefined

\* reading a property of null or undefined throws a TypeError
Nullish(v) == v.t = "null" \/ v.t = "undefined"

TypeErrorReading(v, field) ==
    [name |-> "TypeError",
     message |-> "Cannot read properties of " \o v.t \o " (reading '" \o field \o "')",
     isError |-> TRUE]

\* new Error(message); isError records what `instanceof Error` answers
NewError(message) == [name |-> "Error", message |-> message, isError |-> TRUE]

\* error instanceof Error
InstanceofError(e) == e.isError

----------------------------------------------------------------------------
(* Inputs: what the transport (axios.post) can do with one attempt *)

\* HTTP statuses of a rejected attempt (NoStatus: network error or timeout)
Statuses == {NoStatus, 400, 401, 403, 429, 500, 502, 503, 504}

\* message of an error that carries no response (network error, timeout)
NetworkMessages == {"", "Network Error", "timeout of 60000ms exceeded"}

\* the error object axios rejects with: for a non-2xx response its message
\* names the status
TransportErrors ==
    {[name |-> "AxiosError",
      message |-> "Request failed with status code " \o ToString(s),
      status |-> s, isError |-> TRUE] : s \in Statuses \ {NoStatus}}
    \cup
    {[name |-> "AxiosError", message |-> m, status |-> NoStatus, isError |-> TRUE] :
        m \in NetworkMessages}

\* a reply that JSON.parse rejects
InvalidJsonTexts == {"not json"}

\* texts the model may put in choices[0].message.content
ModelTexts ==
    InvalidJsonTexts \cup
    {
      "null",
      "{}",
      "{\"title\":\"Dev\",\"mustHaveSkills\":[\"go\"]}",
      "{\"matchScore\":150,\"matchedSkills\":[\"go\"],\"summary\":\"fit\"}",
      "{\"matchScore\":-10}",
      "{\"matchScore\":85,\"missingSkills\":[\"sql\"]}",
      "{\"company\":{\"name\":\"Acme\"},\"job\":{\"title\":\"Dev\"}}",
      "{\"company\":{\"name\":\"Acme\"}}",
      "{\"tailoredSummary\":\"s\",\"tailoredSkills\":[\"go\"]}",
      "{\"matchScore\":\"high\"}",
      "{\"matchScore\":85.5}" }

\* how far beyond [0,100] the scores of the model's replies go
ScoreMargin == 50

\* the integers a reply may carry as matchScore
ScoreRange == (0 - ScoreMargin)..(100 + ScoreMargin)

RECURSIVE JoinQuoted(_)
\* the elements of a list of strings as JSON, separated by commas
JoinQuoted(a) ==
    IF a = <<>> THEN ""
    ELSE "\"" \o Head(a) \o "\"" \o (IF Len(a) > 1 THEN "," ELSE "") \o JoinQuoted(Tail(a))

\* the JSON text of a value (JSON.stringify)
JsonText(v) ==
    CASE v.t = "null" -> "null"
      [] v.t = "boolean" -> IF v.b THEN "true" ELSE "false"
      [] v.t = "number" -> ToString(v.n)
      [] v.t = "decimal" -> ToString(v.i) \o "." \o ToString(v.d)
      [] v.t = "string" -> "\"" \o v.s \o "\""
      [] v.t = "array" -> "[" \o JoinQuoted(v.a) \o "]"
      [] v.t = "object" -> "{}"

\* the JSON text of an object with the single key `field`
FieldText(field, v) == "{\"" \o field \o "\":" \o JsonText(v) \o "}"

\* the keys the sub-tasks read from the model's reply
StructuredJDFields ==
    {"title", "company", "location", "employmentType", "experienceLevel",
     "educationRequirements", "domain", "responsibilities", "mustHaveSkills",
     "niceToHaveSkills", "technologies", "summary"}
StructuredResumeFields ==
    {"name", "email", "phone", "location", "summary", "skills", "education",
     "experience", "projects", "certifications"}
BaseAnalysisFields ==
    {"matchScore", "matchedSkills", "missingSkills", "suggestions",
     "sampleBullets", "summary"}
TailoredResumeFields ==
    {"tailoredSummary", "tailoredSkills", "tailoredExperience",
     "tailoredProjects", "coverLetterHighlights"}
ReplyFields ==
    StructuredJDFields \cup StructuredResumeFields \cup BaseAnalysisFields
        \cup TailoredResumeFields

\* values a reply may give to one of these keys
ReplyValues == {Null, Str(""), Str("x"), Arr(<<>>), Arr(<<"a">>)}

\* values a reply may give to matchScore
ScoreValues ==
    {Num(n) : n \in ScoreRange} \cup
    {Null, Dec(85, 5), Dec(100, 5), Str("high"), Str("85"), Str(""), Bool(TRUE),
     Bool(FALSE), Arr(<<>>), Obj(<<>>)}

\* replies that are valid JSON but no object
ScalarValues == {Num(5), Str("x"), Arr(<<>>), Bool(TRUE)}

\* the key and value of every single-key object a reply may be
FieldReplies ==
    (ReplyFields \X ReplyValues) \cup ({"matchScore"} \X ScoreValues)

\* texts the model may put in choices[0].message.content, answering a
\* sub-task called on its own
RichTexts ==
    ModelTexts \cup {JsonText(v) : v \in ScalarValues}
        \cup {FieldText(r[1], r[2]) : r \in FieldReplies}

\* response.data.choices[0]?.message?.content of a 2xx response
Contents == {Undefined, Str("")} \cup {Str(x) : x \in ModelTexts}

TransportOutcomes ==
    {[ok |-> TRUE, content |-> c] : c \in Contents}
    \cup {[ok |-> FALSE, error |-> e] : e \in TransportErrors}

----------------------------------------------------------------------------
(* Completion client *)

\* mutant: every 5xx status is retried
isRetryableStatus_Any5xx(statusCode) == statusCode = 429 \/ statusCode >= 500

isRetryableStatus(statusCode) ==
    statusCode = 429 \/ statusCode = 500 \/ statusCode = 502 \/ statusCode = 503

\* axiosError.response?.status
ResponseStatus(error) ==
    IF "status" \in DOMAIN error THEN error.status ELSE NoStatus

\* mutant: the derived error is a real Error instance
createRetryableError_AsError(axiosError) ==
    [name |-> "OpenAIError",
     message |-> IF axiosError.message # "" THEN axiosError.message
                 ELSE "OpenAI API request failed",
     isRetryable |-> isRetryableStatus(ResponseStatus(axiosError)),
     statusCode |-> ResponseStatus(axiosError),
     isError |-> TRUE]

\* the object literal is cast to RetryableError: it is not an Error instance
createRetryableError(axiosError) ==
    [name |-> "OpenAIError",
     message |-> IF axiosError.message # "" THEN axiosError.message
                 ELSE "OpenAI API request failed",
     isRetryable |-> isRetryableStatus(ResponseStatus(axiosError)),
     statusCode |-> ResponseStatus(axiosError),
     isError |-> FALSE]

\* mutant: the message of the 401 case quotes the key that was rejected
handleNonRetryableError_QuotesKey(error) ==
    IF error.statusCode = 401 THEN NewError("Invalid OpenAI API key " \o apiKey.s)
    ELSE IF error.statusCode = 400 THEN NewError("Invalid request to OpenAI API")
    ELSE error

\* mutant: the 401 case is missing
handleNonRetryableError_No401(error) ==
    IF error.statusCode = 400 THEN NewError("Invalid request to OpenAI API")
    ELSE error

\* the value handleNonRetryableError throws
handleNonRetryableError(error) ==
    IF error.statusCode = 401 THEN NewError("Invalid OpenAI API key")
    ELSE IF error.statusCode = 400 THEN NewError("Invalid request to OpenAI API")
    ELSE error

\* mutant: an empty reply is reported as a 503 of the transport
makeOpenAIRequest_EmptyAs503(outcome) ==
    IF ~outcome.ok THEN [returned |-> FALSE, error |-> outcome.error]
    ELSE IF ~Truthy(outcome.content)
         THEN [returned |-> FALSE,
               error |-> [name |-> "AxiosError",
                          message |-> "Empty response from OpenAI API",
                          status |-> 503, isError |-> TRUE]]
         ELSE [returned |-> TRUE, content |-> outcome.content]

\* one attempt: the content returned, or the value thrown
makeOpenAIRequest(outcome) ==
    IF ~outcome.ok THEN [returned |-> FALSE, error |-> outcome.error]
    ELSE IF ~Truthy(outcome.content)
         THEN [returned |-> FALSE, error |-> NewError("Empty response from OpenAI API")]
         ELSE [returned |-> TRUE, content |-> outcome.content]

RECURSIVE Pow2(_)
\* Math.pow(2, n)
Pow2(n) == IF n = 0 THEN 1 ELSE 2 * Pow2(n - 1)

\* mutant: the delay does not grow
BackoffDelay_Fixed(n) == RETRY_DELAY_MS

\* const delay = RETRY_DELAY_MS * Math.pow(2, attempt)
BackoffDelay(n) == RETRY_DELAY_MS * Pow2(n)

\* mutant: the aggregate error drops the underlying message
ExhaustedError_NoMessage(last) ==
    NewError("OpenAI API call failed after " \o ToString(MAX_RETRIES) \o " attempts")

\* the error thrown once the loop is exhausted
ExhaustedError(last) ==
    NewError("OpenAI API call failed after " \o ToString(MAX_RETRIES)
             \o " attempts: " \o last.message)

\* mutant: only an undefined credential is rejected
ChatStart_UndefinedOnly(task) ==
    /\ attempt' = 0
    /\ lastError' = Null
    /\ outcomes' = <<>>
    /\ waited' = <<>>
    /\ IF apiKey = Undefined
       THEN /\ cpc' = "thrown"
            /\ chatResult' = NewError("OPENAI_API_KEY is not configured")
            /\ issued' = issued
       ELSE /\ cpc' = "request"
            /\ chatResult' = Null
            /\ issued' = Append(issued, task)

\* callOpenAIChat up to its first await: the credential check, then the
\* first attempt is issued on behalf of sub-task `task`
ChatStart(task) ==
    /\ attempt' = 0
    /\ lastError' = Null
    /\ outcomes' = <<>>
    /\ waited' = <<>>
    /\ IF ~Truthy(apiKey)
       THEN /\ cpc' = "thrown"
            /\ chatResult' = NewError("OPENAI_API_KEY is not configured")
            /\ issued' = issued
       ELSE /\ cpc' = "request"
            /\ chatResult' = Null
            /\ issued' = Append(issued, task)

\* mutant: a failure that is not retryable is retried like any other
HttpAttempt_RetryAll(outcome) ==
    /\ cpc = "request"
    /\ outcomes' = Append(outcomes, outcome)
    /\ LET r == makeOpenAIRequest(outcome)
           e == createRetryableError(r.error)
       IN IF r.returned
          THEN /\ cpc' = "returned"
               /\ chatResult' = r.content
               /\ UNCHANGED <<attempt, lastError>>
          ELSE /\ lastError' = e
               /\ IF attempt < MAX_RETRIES - 1
                  THEN /\ cpc' = "backoff"
                       /\ UNCHANGED <<chatResult, attempt>>
                  ELSE /\ cpc' = "thrown"
                       /\ attempt' = attempt + 1
                       /\ chatResult' = ExhaustedError(e)
    /\ UNCHANGED <<apiKey, metadataHtmlString, pc, structuredJD, parsedMetadata,
                   analysisResult, analyzeError, subError, waited, issued,
                   invoked, failed, soloVars>>

\* axios.post settles with `outcome`; the loop body runs to its next await,
\* return or throw
HttpAttempt(outcome) ==
    /\ cpc = "request"
    /\ outcomes' = Append(outcomes, outcome)
    /\ LET r == makeOpenAIRequest(outcome)
           e == createRetryableError(r.error)
       IN IF r.returned
          THEN /\ cpc' = "returned"
               /\ chatResult' = r.content
               /\ UNCHANGED <<attempt, lastError>>
          ELSE /\ lastError' = e
               /\ IF ~e.isRetryable
                  THEN /\ cpc' = "thrown"
                       /\ chatResult' = handleNonRetryableError(e)
                       /\ attempt' = attempt
                  ELSE IF attempt < MAX_RETRIES - 1
                  THEN /\ cpc' = "backoff"
                       /\ UNCHANGED <<chatResult, attempt>>
                  ELSE /\ cpc' = "thrown"
                       /\ attempt' = attempt + 1
                       /\ chatResult' = ExhaustedError(e)
    /\ UNCHANGED <<apiKey, metadataHtmlString, pc, structuredJD, parsedMetadata,
                   analysisResult, analyzeError, subError, waited, issued,
                   invoked, failed, soloVars>>

\* the backoff timer fires; the loop issues the next attempt
BackoffElapsed ==
    /\ cpc = "backoff"
    /\ waited' = Append(waited, BackoffDelay(attempt))
    /\ attempt' = attempt + 1
    /\ cpc' = "request"
    /\ issued' = Append(issued, pc)
    /\ UNCHANGED <<apiKey, metadataHtmlString, pc, structuredJD, parsedMetadata,
                   analysisResult, analyzeError, subError, lastError, chatResult,
                   outcomes, invoked, failed, soloVars>>

----------------------------------------------------------------------------
(* Response parsers *)

\* the value each JSON text of RichTexts stands for
ParsedScalar ==
    [text \in {JsonText(v) : v \in ScalarValues} |->
        CHOOSE v \in ScalarValues : text = JsonText(v)]
ParsedObject ==
    [text \in {FieldText(r[1], r[2]) : r \in FieldReplies} |->
        LET r == CHOOSE x \in FieldReplies : text = FieldText(x[1], x[2])
        IN Obj(r[1] :> r[2])]

\* JSON.parse(response.trim()) on the texts of ModelTexts and RichTexts
JSONParse(text) ==
    CASE text = "null" -> [ok |-> TRUE, value |-> Null]
      [] text = "{}" -> [ok |-> TRUE, value |-> Obj(<<>>)]
      [] text = "{\"title\":\"Dev\",\"mustHaveSkills\":[\"go\"]}" ->
            [ok |-> TRUE,
             value |-> Obj([title |-> Str("Dev"), mustHaveSkills |-> Arr(<<"go">>)])]
      [] text = "{\"matchScore\":150,\"matchedSkills\":[\"go\"],\"summary\":\"fit\"}" ->
            [ok |-> TRUE,
             value |-> Obj([matchScore |-> Num(150), matchedSkills |-> Arr(<<"go">>),
                            summary |-> Str("fit")])]
      [] text = "{\"matchScore\":-10}" ->
            [ok |-> TRUE, value |-> Obj([matchScore |-> Num(-10)])]
      [] text = "{\"matchScore\":85,\"missingSkills\":[\"sql\"]}" ->
            [ok |-> TRUE,
             value |-> Obj([matchScore |-> Num(85), missingSkills |-> Arr(<<"sql">>)])]
      [] text = "{\"company\":{\"name\":\"Acme\"},\"job\":{\"title\":\"Dev\"}}" ->
            [ok |-> TRUE,
             value |-> Obj([company |-> Obj([name |-> Str("Acme")]),
                            job |-> Obj([title |-> Str("Dev")])])]
      [] text = "{\"company\":{\"name\":\"Acme\"}}" ->
            [ok |-> TRUE, value |-> Obj([company |-> Obj([name |-> Str("Acme")])])]
      [] text = "{\"tailoredSummary\":\"s\",\"tailoredSkills\":[\"go\"]}" ->
            [ok |-> TRUE,
             value |-> Obj([tailoredSummary |-> Str("s"), tailoredSkills |-> Arr(<<"go">>)])]
      [] text \in DOMAIN ParsedScalar -> [ok |-> TRUE, value |-> ParsedScalar[text]]
      [] text \in DOMAIN ParsedObject -> [ok |-> TRUE, value |-> ParsedObject[text]]
      [] OTHER ->  \* the SyntaxError V8 raises on "not json"
            [ok |-> FALSE,
             error |-> [name |-> "SyntaxError",
                        message |-> "Unexpected token 'o', \"" \o text
                                    \o "\" is not valid JSON",
                        isError |-> TRUE]]

\* error instanceof Error ? error.message : "Unknown error"
MessageOf(error) == IF InstanceofError(error) THEN error.message ELSE "Unknown error"

\* the integers whose numerals the strings of the model may spell
Numerals == 0..100

\* ToNumber of a string: the number it spells, 0 for the empty string, NaN for
\* any other string
StringToNumber(s) ==
    IF s = "" THEN Num(0)
    ELSE IF \E n \in Numerals : ToString(n) = s
         THEN Num(CHOOSE n \in Numerals : ToString(n) = s)
         ELSE NaN

\* ToNumber(x), the coercion Math.max and Math.min apply to an argument
ToNumber(x) ==
    CASE x.t \in {"number", "decimal", "NaN"} -> x
      [] x.t = "undefined" -> NaN
      [] x.t = "null" -> Num(0)
      [] x.t = "boolean" -> Num(IF x.b THEN 1 ELSE 0)
      [] x.t = "string" -> StringToNumber(x.s)
      [] x.t = "array" -> IF x.a = <<>> THEN Num(0)
                          ELSE IF Len(x.a) = 1 THEN StringToNumber(x.a[1])
                          ELSE NaN
      [] OTHER -> NaN

\* variant: only the lower limit is applied
Clamp_LowerOnly(x) ==
    LET n == ToNumber(x)
    IN CASE n.t = "NaN" -> NaN
         [] n.t = "decimal" -> n
         [] OTHER -> Num(IF n.n < 0 THEN 0 ELSE n.n)

\* Math.min(100, Math.max(0, x)): NaN stays NaN, a fraction inside the range
\* stays a fraction
Clamp(x) ==
    LET n == ToNumber(x)
    IN CASE n.t = "NaN" -> NaN
         [] n.t = "decimal" -> IF n.i >= 100 THEN Num(100) ELSE n
         [] OTHER -> Num(IF n.n < 0 THEN 0 ELSE IF n.n > 100 THEN 100 ELSE n.n)

EmptyArr == Arr(<<>>)
EmptyStr == Str("")

\* variant: summary is copied from the reply without a default
StructuredJDOf_NoSummaryDefault(jdData) ==
    [title |-> Or(Get(jdData, "title"), EmptyStr),
     company |-> Or(Get(jdData, "company"), EmptyStr),
     location |-> Or(Get(jdData, "location"), EmptyStr),
     employmentType |-> Or(Get(jdData, "employmentType"), EmptyStr),
     experienceLevel |-> Or(Get(jdData, "experienceLevel"), EmptyStr),
     educationRequirements |-> Or(Get(jdData, "educationRequirements"), EmptyArr),
     domain |-> Or(Get(jdData, "domain"), EmptyStr),
     responsibilities |-> Or(Get(jdData, "responsibilities"), EmptyArr),
     mustHaveSkills |-> Or(Get(jdData, "mustHaveSkills"), EmptyArr),
     niceToHaveSkills |-> Or(Get(jdData, "niceToHaveSkills"), EmptyArr),
     technologies |-> Or(Get(jdData, "technologies"), EmptyArr),
     summary |-> Get(jdData, "summary")]

\* the object literal preProcessJD returns
StructuredJDOf(jdData) ==
    [title |-> Or(Get(jdData, "title"), EmptyStr),
     company |-> Or(Get(jdData, "company"), EmptyStr),
     location |-> Or(Get(jdData, "location"), EmptyStr),
     employmentType |-> Or(Get(jdData, "employmentType"), EmptyStr),
     experienceLevel |-> Or(Get(jdData, "experienceLevel"), EmptyStr),
     educationRequirements |-> Or(Get(jdData, "educationRequirements"), EmptyArr),
     domain |-> Or(Get(jdData, "domain"), EmptyStr),
     responsibilities |-> Or(Get(jdData, "responsibilities"), EmptyArr),
     mustHaveSkills |-> Or(Get(jdData, "mustHaveSkills"), EmptyArr),
     niceToHaveSkills |-> Or(Get(jdData, "niceToHaveSkills"), EmptyArr),
     technologies |-> Or(Get(jdData, "technologies"), EmptyArr),
     summary |-> Or(Get(jdData, "summary"), EmptyStr)]

\* the object literal callOpenAI returns
BaseAnalysisOf(result) ==
    [matchScore |-> Clamp(Or(Get(result, "matchScore"), Num(0))),
     matchedSkills |-> Or(Get(result, "matchedSkills"), EmptyArr),
     missingSkills |-> Or(Get(result, "missingSkills"), EmptyArr),
     suggestions |-> Or(Get(result, "suggestions"), EmptyArr),
     sampleBullets |-> Or(Get(result, "sampleBullets"), EmptyArr),
     summary |-> Or(Get(result, "summary"), EmptyStr)]

\* the object literal generateTailoredResume returns
TailoredResumeOf(result) ==
    [tailoredSummary |-> Or(Get(result, "tailoredSummary"), EmptyStr),
     tailoredSkills |-> Or(Get(result, "tailoredSkills"), EmptyArr),
     tailoredExperience |-> Or(Get(result, "tailoredExperience"), EmptyArr),
     tailoredProjects |-> Or(Get(result, "tailoredProjects"), EmptyArr),
     coverLetterHighlights |-> Or(Get(result, "coverLetterHighlights"), EmptyArr)]

\* the placeholder analyze puts in analysisResult.tailoredResume
EmptyTailoredResume ==
    [tailoredSummary |-> EmptyStr, tailoredSkills |-> EmptyArr,
     tailoredExperience |-> EmptyArr, tailoredProjects |-> EmptyArr,
     coverLetterHighlights |-> EmptyArr]

\* the object literal parseJobMetadata returns on success
JobMetadataOf(parsed) ==
    [companyLinkedInUrl |-> Or(Get(Get(parsed, "company"), "linkedinUrl"), EmptyStr),
     companyLogoUrl |-> Or(Get(Get(parsed, "company"), "logo"), EmptyStr),
     companyName |-> Or(Get(Get(parsed, "company"), "name"), EmptyStr),
     jobTitle |-> Or(Get(Get(parsed, "job"), "title"), EmptyStr),
     location |-> Or(Get(Get(parsed, "job"), "location"), EmptyStr),
     salary |-> EmptyStr,
     postedDate |-> Or(Get(Get(parsed, "job"), "posted"), EmptyStr),
     applicationDeadline |-> EmptyStr,
     jobType |-> Or(Get(Get(parsed, "job"), "employmentType"), EmptyStr),
     remote |-> EmptyStr,
     benefits |-> EmptyArr,
     additionalInfo |-> Obj(<<>>)]

\* the object literal parseJobMetadata returns from its catch block
EmptyJobMetadata ==
    [companyLinkedInUrl |-> EmptyStr, companyLogoUrl |-> EmptyStr,
     companyName |-> EmptyStr, jobTitle |-> EmptyStr, location |-> EmptyStr,
     salary |-> EmptyStr, postedDate |-> EmptyStr, applicationDeadline |-> EmptyStr,
     jobType |-> EmptyStr, remote |-> EmptyStr, benefits |-> EmptyArr,
     additionalInfo |-> Obj(<<>>)]

\* the try block of a sub-task after `await callOpenAIChat(...)`: the parsed
\* JSON value, or the error that reaches the sub-task's catch block
\* (`first` is the property the object literal reads first)
ParsedOrError(first) ==
    IF cpc = "thrown" THEN [ok |-> FALSE, error |-> chatResult]
    ELSE LET p == JSONParse(chatResult.s)
         IN IF ~p.ok THEN p
            ELSE IF Nullish(p.value)
                 THEN [ok |-> FALSE, error |-> TypeErrorReading(p.value, first)]
                 ELSE p

\* mutant: a failure is swallowed with an all-empty structure
preProcessJD_Fallback ==
    LET p == ParsedOrError("title")
    IN [returned |-> TRUE,
        value |-> StructuredJDOf(IF p.ok THEN p.value ELSE Obj(<<>>))]

\* preProcessJD: the StructuredJD returned, or the error thrown
preProcessJD ==
    LET p == ParsedOrError("title")
    IN IF p.ok THEN [returned |-> TRUE, value |-> StructuredJDOf(p.value)]
       ELSE [returned |-> FALSE,
             error |-> NewError("Failed to preprocess job description: "
                                \o MessageOf(p.error))]

\* mutant: a failure is swallowed with an all-empty analysis
callOpenAI_Fallback ==
    LET p == ParsedOrError("matchScore")
    IN [returned |-> TRUE,
        value |-> BaseAnalysisOf(IF p.ok THEN p.value ELSE Obj(<<>>))]

\* callOpenAI (match analysis): the BaseAnalysisResult returned, or the error thrown
callOpenAI ==
    LET p == ParsedOrError("matchScore")
    IN IF p.ok THEN [returned |-> TRUE, value |-> BaseAnalysisOf(p.value)]
       ELSE [returned |-> FALSE,
             error |-> NewError("Failed to analyze job description and resume: "
                                \o MessageOf(p.error))]

\* sanitizedResume.substring(0, 1000)
SUMMARY_MAX == 1000

\* variant: summary is the whole sanitized text
ResumeFallback_WholeText(sanitized) ==
    Obj([name |-> EmptyStr, email |-> EmptyStr, phone |-> EmptyStr,
         location |-> EmptyStr, summary |-> sanitized,
         skills |-> EmptyArr, education |-> EmptyArr, experience |-> EmptyArr,
         projects |-> EmptyArr, certifications |-> EmptyArr])

\* the object literal preprocessResume returns when JSON.parse fails
ResumeFallback(sanitized) ==
    Obj([name |-> EmptyStr, email |-> EmptyStr, phone |-> EmptyStr,
         location |-> EmptyStr,
         summary |-> Text(Substring(sanitized.c, SUMMARY_MAX)),
         skills |-> EmptyArr, education |-> EmptyArr, experience |-> EmptyArr,
         projects |-> EmptyArr, certifications |-> EmptyArr])

\* variant: a client failure is swallowed with the fallback structure too
preprocessResume_Lenient ==
    IF cpc = "thrown"
    THEN [returned |-> TRUE, value |-> ResumeFallback(sanitizedResume)]
    ELSE LET p == JSONParse(chatResult.s)
         IN IF p.ok THEN [returned |-> TRUE, value |-> p.value]
            ELSE [returned |-> TRUE, value |-> ResumeFallback(sanitizedResume)]

\* preprocessResume: the parsed reply as it is, the fallback structure when
\* the reply is not JSON, or the error thrown when the client failed
preprocessResume ==
    IF cpc = "thrown"
    THEN [returned |-> FALSE,
          error |-> NewError("Failed to preprocess resume: " \o MessageOf(chatResult))]
    ELSE LET p == JSONParse(chatResult.s)
         IN IF p.ok THEN [returned |-> TRUE, value |-> p.value]
            ELSE [returned |-> TRUE, value |-> ResumeFallback(sanitizedResume)]

\* generateTailoredResume: the TailoredResume returned, or the error thrown
generateTailoredResume ==
    LET p == ParsedOrError("tailoredSummary")
    IN IF p.ok THEN [returned |-> TRUE, value |-> TailoredResumeOf(p.value)]
       ELSE [returned |-> FALSE,
             error |-> NewError("Failed to generate tailored resume: "
                                \o MessageOf(p.error))]

\* the try block of parseJobMetadata: reading parsed.company.linkedinUrl or
\* parsed.job.title throws when parsed.company or parsed.job is missing
MetadataTry ==
    LET p == ParsedOrError("company")
    IN IF ~p.ok THEN p
       ELSE IF Nullish(Get(p.value, "company"))
       THEN [ok |-> FALSE,
             error |-> TypeErrorReading(Get(p.value, "company"), "linkedinUrl")]
       ELSE IF Nullish(Get(p.value, "job"))
       THEN [ok |-> FALSE, error |-> TypeErrorReading(Get(p.value, "job"), "title")]
       ELSE p

\* parseJobMetadata: never throws; its catch block returns the all-empty record
parseJobMetadata ==
    IF MetadataTry.ok THEN JobMetadataOf(MetadataTry.value) ELSE EmptyJobMetadata

----------------------------------------------------------------------------
(* Orchestrator *)

\* characters String.prototype.trim removes
WhiteSpace == {" ", "\t", "\n", "\f", "\r"}

RECURSIVE TrimStart(_)
TrimStart(c) ==
    IF c # <<>> /\ Head(c) \in WhiteSpace THEN TrimStart(Tail(c)) ELSE c

RECURSIVE TrimEnd(_)
TrimEnd(c) ==
    IF c # <<>> /\ c[Len(c)] \in WhiteSpace
    THEN TrimEnd(SubSeq(c, 1, Len(c) - 1)) ELSE c

\* text.trim()
Trim(c) == TrimEnd(TrimStart(c))

\* mutant: the source is not trimmed before its length is tested
HasMetadataSource_Untrimmed(m) == Truthy(m) /\ Len(m.c) > 0

\* metadataHtmlString && metadataHtmlString.trim().length > 0
HasMetadataSource(m) == Truthy(m) /\ Len(Trim(m.c)) > 0

\* a truthy value that is not a string has no trim method: evaluating the
\* condition throws a TypeError, outside the inner try block
TrimThrows(m) == Truthy(m) /\ m.t # "text"

TrimTypeError ==
    [name |-> "TypeError",
     message |-> "metadataHtmlString.trim is not a function",
     isError |-> TRUE]

\* the error analyze throws from its catch block
AnalyzeError(error) ==
    NewError("Failed to analyze job description and resume: " \o MessageOf(error))

\* a sub-task is invoked with structured JD `jd` (Undefined when it takes
\* none) and calls the completion client
Invoke(task, jd) ==
    /\ invoked' = Append(invoked, [task |-> task, structuredJD |-> jd])
    /\ ChatStart(task)

\* analyze is called: preProcessJD calls the completion client
Analyze ==
    /\ pc = "start"
    /\ pc' = "preProcessJD"
    /\ Invoke("preProcessJD", Undefined)
    /\ UNCHANGED <<apiKey, metadataHtmlString, structuredJD, parsedMetadata,
                   analysisResult, analyzeError, subError, failed, soloVars>>

\* preProcessJD settles; analyze goes on to the metadata step or to match
\* analysis, or throws
AnalyzeAfterJD ==
    /\ pc = "preProcessJD"
    /\ cpc \in {"returned", "thrown"}
    /\ LET r == preProcessJD
       IN IF ~r.returned
          THEN /\ pc' = "thrown"
               /\ subError' = r.error
               /\ failed' = failed \cup {"preProcessJD"}
               /\ analyzeError' = AnalyzeError(r.error)
               /\ UNCHANGED <<structuredJD, clientVars, invoked>>
          ELSE /\ structuredJD' = r.value
               /\ UNCHANGED <<subError, failed>>
               /\ IF TrimThrows(metadataHtmlString)
                  THEN /\ pc' = "thrown"
                       /\ analyzeError' = AnalyzeError(TrimTypeError)
                       /\ UNCHANGED <<clientVars, invoked>>
                  ELSE /\ analyzeError' = analyzeError
                       /\ IF HasMetadataSource(metadataHtmlString)
                          THEN /\ pc' = "parseJobMetadata"
                               /\ Invoke("parseJobMetadata", Undefined)
                          ELSE /\ pc' = "callOpenAI"
                               /\ Invoke("callOpenAI", r.value)
    /\ UNCHANGED <<apiKey, metadataHtmlString, parsedMetadata, analysisResult,
                   soloVars>>

\* parseJobMetadata settles (it never throws); analyze goes on to match analysis
AnalyzeAfterMetadata ==
    /\ pc = "parseJobMetadata"
    /\ cpc \in {"returned", "thrown"}
    /\ parsedMetadata' = parseJobMetadata
    /\ failed' = IF MetadataTry.ok THEN failed ELSE failed \cup {"parseJobMetadata"}
    /\ pc' = "callOpenAI"
    /\ Invoke("callOpenAI", structuredJD)
    /\ UNCHANGED <<apiKey, metadataHtmlString, structuredJD, analysisResult,
                   analyzeError, subError, soloVars>>

\* variant: tailoring is invoked without the structured JD of step 1
AnalyzeAfterMatch_NoJD ==
    /\ pc = "callOpenAI"
    /\ cpc \in {"returned", "thrown"}
    /\ LET r == callOpenAI
       IN IF ~r.returned
          THEN /\ pc' = "thrown"
               /\ subError' = r.error
               /\ failed' = failed \cup {"callOpenAI"}
               /\ analyzeError' = AnalyzeError(r.error)
               /\ UNCHANGED <<analysisResult, clientVars, invoked>>
          ELSE /\ analysisResult' =
                      [matchScore |-> r.value.matchScore,
                       matchedSkills |-> r.value.matchedSkills,
                       missingSkills |-> r.value.missingSkills,
                       suggestions |-> r.value.suggestions,
                       sampleBullets |-> r.value.sampleBullets,
                       summary |-> r.value.summary,
                       structuredJD |-> structuredJD,
                       tailoredResume |-> EmptyTailoredResume,
                       jobMetadata |-> parsedMetadata]
               /\ pc' = "generateTailoredResume"
               /\ Invoke("generateTailoredResume", Undefined)
               /\ UNCHANGED <<subError, analyzeError, failed>>
    /\ UNCHANGED <<apiKey, metadataHtmlString, structuredJD, parsedMetadata,
                   soloVars>>

\* callOpenAI settles; analyze assembles the result and goes on to tailoring,
\* or throws
AnalyzeAfterMatch ==
    /\ pc = "callOpenAI"
    /\ cpc \in {"returned", "thrown"}
    /\ LET r == callOpenAI
       IN IF ~r.returned
          THEN /\ pc' = "thrown"
               /\ subError' = r.error
               /\ failed' = failed \cup {"callOpenAI"}
               /\ analyzeError' = AnalyzeError(r.error)
               /\ UNCHANGED <<analysisResult, clientVars, invoked>>
          ELSE /\ analysisResult' =
                      [matchScore |-> r.value.matchScore,
                       matchedSkills |-> r.value.matchedSkills,
                       missingSkills |-> r.value.missingSkills,
                       suggestions |-> r.value.suggestions,
                       sampleBullets |-> r.value.sampleBullets,
                       summary |-> r.value.summary,
                       structuredJD |-> structuredJD,
                       tailoredResume |-> EmptyTailoredResume,
                       jobMetadata |-> parsedMetadata]
               /\ pc' = "generateTailoredResume"
               /\ Invoke("generateTailoredResume", structuredJD)
               /\ UNCHANGED <<subError, analyzeError, failed>>
    /\ UNCHANGED <<apiKey, metadataHtmlString, structuredJD, parsedMetadata,
                   soloVars>>

\* variant: a tailoring failure aborts analyze like a match-analysis failure
AnalyzeAfterTailor_Abort ==
    /\ pc = "generateTailoredResume"
    /\ cpc \in {"returned", "thrown"}
    /\ LET r == generateTailoredResume
       IN IF r.returned
          THEN /\ analysisResult' = [analysisResult EXCEPT !.tailoredResume = r.value]
               /\ pc' = "returned"
               /\ UNCHANGED <<subError, failed, analyzeError>>
          ELSE /\ analysisResult' = analysisResult
               /\ pc' = "thrown"
               /\ subError' = r.error
               /\ failed' = failed \cup {"generateTailoredResume"}
               /\ analyzeError' = AnalyzeError(r.error)
    /\ UNCHANGED <<apiKey, metadataHtmlString, structuredJD, parsedMetadata,
                   clientVars, invoked, soloVars>>

\* generateTailoredResume settles; analyze returns analysisResult either way
AnalyzeAfterTailor ==
    /\ pc = "generateTailoredResume"
    /\ cpc \in {"returned", "thrown"}
    /\ LET r == generateTailoredResume
       IN IF r.returned
          THEN /\ analysisResult' = [analysisResult EXCEPT !.tailoredResume = r.value]
               /\ UNCHANGED <<subError, failed>>
          ELSE /\ analysisResult' = analysisResult
               /\ subError' = r.error
               /\ failed' = failed \cup {"generateTailoredResume"}
    /\ pc' = "returned"
    /\ UNCHANGED <<apiKey, metadataHtmlString, structuredJD, parsedMetadata,
                   analyzeError, clientVars, invoked, soloVars>>

----------------------------------------------------------------------------
(* Text sanitizer (sanitizeText); a text is a sequence of characters *)

Digits == {"0", "1", "2", "3", "4", "5", "6", "7", "8", "9"}

Letters ==
    {"a", "b", "c", "d", "e", "f", "g", "h", "i", "j", "k", "l", "m",
     "n", "o", "p", "q", "r", "s", "t", "u", "v", "w", "x", "y", "z",
     "A", "B", "C", "D", "E", "F", "G", "H", "I", "J", "K", "L", "M",
     "N", "O", "P", "Q", "R", "S", "T", "U", "V", "W", "X", "Y", "Z"}

\* \w
WordChars == Letters \cup Digits \cup {"_"}

\* the printable ASCII characters that are neither letters nor digits
\* (without the backquote, which no text of the model holds)
Punctuation ==
    {" ", "!", "\"", "#", "$", "%", "&", "'", "(", ")", "*", "+", ",", "-",
     ".", "/", ":", ";", "<", "=", ">", "?", "@", "[", "\\", "]", "^", "_",
     "{", "|", "}", "~"}

\* [\u0000-\u001F\u007F] (the control characters a text of the model may hold)
ControlChars == {"\t", "\n", "\f", "\r", "", ""}

\* [\x00-\x7F]
AsciiChars == Letters \cup Digits \cup Punctuation \cup ControlChars

\* \s: of the characters of the model, those that trim removes
SpaceChars == WhiteSpace

\* [A-Za-z0-9._%+-], [A-Za-z0-9.-] and [A-Z|a-z] of the email pattern
EmailLocalChars == Letters \cup Digits \cup {".", "_", "%", "+", "-"}
EmailDomainChars == Letters \cup Digits \cup {".", "-"}
EmailTldChars == Letters \cup {"|"}

\* [-.\s] of the phone pattern and [\s-] of the card pattern
PhoneSeparators == SpaceChars \cup {"-", "."}
CardSeparators == SpaceChars \cup {"-"}

\* c[i] is a word character (FALSE outside the text)
IsWordAt(c, i) == i >= 1 /\ i <= Len(c) /\ c[i] \in WordChars

\* \b between c[i - 1] and c[i]
BoundaryAt(c, i) == IsWordAt(c, i - 1) # IsWordAt(c, i)

\* every character of c[from..to] is in class
AllIn(c, from, to, class) == \A k \in from..to : c[k] \in class

\* the last index of the email match that starts at i, 0 when there is none:
\* local part up to the "@", then the longest domain that leaves a "." and
\* a top-level part of two or more characters ending at a word boundary
EmailEnd(c, i) ==
    IF ~(c[i] \in EmailLocalChars /\ BoundaryAt(c, i)) THEN 0
    ELSE LET at == CHOOSE j \in (i + 1)..(Len(c) + 1) :
                      /\ AllIn(c, i, j - 1, EmailLocalChars)
                      /\ (j = Len(c) + 1 \/ c[j] \notin EmailLocalChars)
         IN IF at > Len(c) \/ c[at] # "@" THEN 0
            ELSE LET ends == {<<dot, e>> \in ((at + 2)..Len(c)) \X ((at + 4)..Len(c)) :
                                /\ c[dot] = "."
                                /\ e >= dot + 2
                                /\ AllIn(c, at + 1, dot - 1, EmailDomainChars)
                                /\ AllIn(c, dot + 1, e, EmailTldChars)
                                /\ BoundaryAt(c, e + 1)}
                 IN IF ends = {} THEN 0
                    ELSE LET best == CHOOSE x \in ends :
                                        \A y \in ends :
                                           \/ y[1] < x[1]
                                           \/ (y[1] = x[1] /\ y[2] <= x[2])
                         IN best[2]

\* the alternatives of (?:\+?1[-.\s]?)? in the order the matcher tries them
PhonePrefixes ==
    << <<{"+"}, {"1"}, PhoneSeparators>>, <<{"+"}, {"1"}>>,
       <<{"1"}, PhoneSeparators>>, <<{"1"}>>, <<>> >>

\* x? : the character first, then nothing
Optional(class) == << <<class>>, <<>> >>

\* the sequences one alternative of each part after the other, in the order
\* a backtracking matcher tries them
RECURSIVE Alternatives(_)
Alternatives(parts) ==
    IF parts = <<>> THEN << <<>> >>
    ELSE LET rest == Alternatives(Tail(parts))
             first == Head(parts)
         IN [k \in 1..(Len(first) * Len(rest)) |->
               first[((k - 1) \div Len(rest)) + 1] \o rest[((k - 1) % Len(rest)) + 1]]

\* [0-9]{n}
DigitsTimes(n) == << [k \in 1..n |-> Digits] >>

\* (?:\+?1[-.\s]?)?\(?[0-9]{3}\)?[-.\s]?[0-9]{3}[-.\s]?[0-9]{4}
PhonePatterns ==
    Alternatives(<<PhonePrefixes, Optional({"("}), DigitsTimes(3), Optional({")"}),
                   Optional(PhoneSeparators), DigitsTimes(3),
                   Optional(PhoneSeparators), DigitsTimes(4)>>)

\* [0-9]{4}[\s-]?[0-9]{4}[\s-]?[0-9]{4}[\s-]?[0-9]{4}
CardPatterns ==
    Alternatives(<<DigitsTimes(4), Optional(CardSeparators), DigitsTimes(4),
                   Optional(CardSeparators), DigitsTimes(4),
                   Optional(CardSeparators), DigitsTimes(4)>>)

\* pattern, between two word boundaries, matches c[i..i + Len(pattern) - 1]
MatchesAt(c, i, pattern) ==
    /\ i + Len(pattern) - 1 <= Len(c)
    /\ \A k \in 1..Len(pattern) : c[i + k - 1] \in pattern[k]
    /\ BoundaryAt(c, i)
    /\ BoundaryAt(c, i + Len(pattern))

\* the last index of the match of \b(patterns)\b that starts at i, 0 when
\* there is none: the first alternative that matches decides
PatternEnd(c, i, patterns) ==
    LET hits == {n \in 1..Len(patterns) : MatchesAt(c, i, patterns[n])}
    IN IF ~(c[i] \in Digits \cup {"+", "("}) \/ hits = {} THEN 0
       ELSE LET n == CHOOSE h \in hits : \A g \in hits : h <= g
            IN i + Len(patterns[n]) - 1

EmailToken == <<"[", "e", "m", "a", "i", "l", "]">>
PhoneToken == <<"[", "p", "h", "o", "n", "e", "]">>
CardToken == <<"[", "c", "a", "r", "d", "]">>

\* the last index of the match of the email, phone or card pattern that
\* starts at i, 0 when there is none
MatchEnd(c, i, kind) ==
    CASE kind = "email" -> EmailEnd(c, i)
      [] kind = "phone" -> PatternEnd(c, i, PhonePatterns)
      [] kind = "card" -> PatternEnd(c, i, CardPatterns)

\* text.replace(/pattern/g, token) from index `from` on: each leftmost
\* match, found after the end of the previous one, becomes token
RECURSIVE ReplaceFrom(_, _, _, _)
ReplaceFrom(c, from, kind, token) ==
    LET starts == {i \in from..Len(c) : MatchEnd(c, i, kind) > 0}
    IN IF starts = {} THEN SubSeq(c, from, Len(c))
       ELSE LET i == CHOOSE x \in starts : \A y \in starts : x <= y
            IN SubSeq(c, from, i - 1) \o token
                  \o ReplaceFrom(c, MatchEnd(c, i, kind) + 1, kind, token)

ReplaceAll(c, kind, token) == ReplaceFrom(c, 1, kind, token)

\* the indices of c
Indices(c) == [i \in 1..Len(c) |-> i]

\* text.replace(/[class]+/g, " ")
CollapseRuns(c, class) ==
    LET keep == SelectSeq(Indices(c),
                          LAMBDA i : c[i] \notin class \/ i = 1 \/ c[i - 1] \notin class)
    IN [k \in 1..Len(keep) |-> IF c[keep[k]] \in class THEN " " ELSE c[keep[k]]]

\* text.replace(/[^\x00-\x7F]+/g, " ")
CollapseNonAscii(c) ==
    LET keep == SelectSeq(Indices(c),
                          LAMBDA i : c[i] \in AsciiChars \/ i = 1 \/ c[i - 1] \in AsciiChars)
    IN [k \in 1..Len(keep) |-> IF c[keep[k]] \in AsciiChars THEN c[keep[k]] ELSE " "]

\* DropControl with the class [\u0000-\u001F] only: DEL stays
DropControl_C0Only(c) == SelectSeq(c, LAMBDA ch : ch \notin ControlChars \ {""})

\* text.replace(/[\u0000-\u001F\u007F]/g, "")
DropControl(c) == SelectSeq(c, LAMBDA ch : ch \notin ControlChars)

\* longest text sanitizeText returns
SANITIZED_MAX == 6000

\* sanitizeText(text): the empty string for a value that is not a string or
\* is empty
sanitizeText(text) ==
    IF ~Truthy(text) \/ text.t # "text" THEN Text(<<>>)
    ELSE LET emails == ReplaceAll(text.c, "email", EmailToken)
             phones == ReplaceAll(emails, "phone", PhoneToken)
             cards == ReplaceAll(phones, "card", CardToken)
         IN Text(Substring(DropControl(CollapseNonAscii(CollapseRuns(Trim(cards),
                                                                      SpaceChars))),
                           SANITIZED_MAX))

----------------------------------------------------------------------------
(* Specification *)

ApiKeys == {Undefined, Str(""), Str("sk-test")}

\* jobMetadata?.metadataHtmlString of the request body: any JSON value
MetadataSources ==
    {Undefined, Text(<<>>), Text(<<" ", "\f", "\n">>), Text(<<"<", "p", ">">>),
     Num(42), Obj(<<>>)}

\* no call has been made yet
ServiceIdle ==
    /\ pc = "start"
    /\ structuredJD = Undefined
    /\ parsedMetadata = Undefined
    /\ analysisResult = Undefined
    /\ analyzeError = Undefined
    /\ subError = Undefined
    /\ cpc = "idle"
    /\ attempt = 0
    /\ lastError = Null
    /\ chatResult = Null
    /\ outcomes = <<>>
    /\ waited = <<>>
    /\ issued = <<>>
    /\ invoked = <<>>
    /\ failed = {}
    /\ resumeText = Undefined
    /\ sanitizedResume = Undefined
    /\ subResult = Undefined

\* the service is called directly: there is no HTTP request
NoRequest ==
    /\ req = Undefined
    /\ analyzeController = "structuredResume"
    /\ NODE_ENV = Undefined
    /\ sent = <<>>

\* sanitizeText is not called on its own
NoText ==
    /\ unsafeText = Undefined
    /\ cleanText = Undefined
    /\ cleanTwice = Undefined

\* no completion calls run side by side
NoCalls == calls = <<>>

\* the request is not served a second time
NoReplay ==
    /\ upstream = <<>>
    /\ firstRun = Undefined

Init ==
    /\ apiKey \in ApiKeys
    /\ metadataHtmlString \in MetadataSources
    /\ ServiceIdle
    /\ NoRequest
    /\ NoText
    /\ NoCalls
    /\ NoReplay

Next ==
    \/ Analyze /\ UNCHANGED edgeVars
    \/ \E outcome \in TransportOutcomes : HttpAttempt(outcome) /\ UNCHANGED edgeVars
    \/ BackoffElapsed /\ UNCHANGED edgeVars
    \/ AnalyzeAfterJD /\ UNCHANGED edgeVars
    \/ AnalyzeAfterMetadata /\ UNCHANGED edgeVars
    \/ AnalyzeAfterMatch /\ UNCHANGED edgeVars
    \/ AnalyzeAfterTailor /\ UNCHANGED edgeVars

Spec == Init /\ [][Next]_vars

----------------------------------------------------------------------------
(* Sub-tasks called on their own (the preprocess handlers, a direct caller) *)

SubTasks ==
    {"preProcessJD", "preprocessResume", "parseJobMetadata", "callOpenAI",
     "generateTailoredResume"}

\* resumeText.substring(0, 6000)
RESUME_MAX == 6000

\* n characters of running text
RunningText(n) == [i \in 1..n |-> <<"s", "q", "l", " ", "g", "o", " ">>[((i - 1) % 7) + 1]]

\* resume texts: empty, with personal data, longer than the summary of the
\* fallback, longer than what preprocessResume reads
ResumeTexts ==
    {Text(<<>>),
     Text(<<"j", "@", "x", ".", "c", "o", " ", " ", "5", "5", "5", "-", "1", "2",
            "3", "-", "4", "5", "6", "7", " ", "g", "o">>),
     Text(RunningText(SUMMARY_MAX + 9)),
     Text(RunningText(RESUME_MAX + 9))}

\* HTML passed to parseJobMetadata
MetadataTexts == {m \in MetadataSources : m.t = "text"}

\* the argument a sub-task is called with, where the model tracks it
ArgsOf(task) ==
    CASE task = "preprocessResume" -> ResumeTexts
      [] task = "parseJobMetadata" -> MetadataTexts
      [] OTHER -> {Undefined}

RichOutcomes ==
    {[ok |-> TRUE, content |-> c] : c \in {Undefined, Str("")} \cup {Str(x) : x \in RichTexts}}
    \cup {[ok |-> FALSE, error |-> e] : e \in TransportErrors}

\* a sub-task is called: what it computes before its completion call
DirectCall(task, arg) ==
    /\ pc = "start"
    /\ pc' = task
    /\ IF task = "preprocessResume"
       THEN /\ resumeText' = arg
            /\ sanitizedResume' = sanitizeText(Text(Substring(arg.c, RESUME_MAX)))
       ELSE UNCHANGED <<resumeText, sanitizedResume>>
    /\ metadataHtmlString' = IF task = "parseJobMetadata" THEN arg ELSE metadataHtmlString
    /\ Invoke(task, Undefined)
    /\ UNCHANGED <<apiKey, structuredJD, parsedMetadata, analysisResult, analyzeError,
                   subError, failed, subResult>>

\* mutant: the catch block of parseJobMetadata rethrows
SubTaskOutcome_MetadataRethrows(task) ==
    CASE task = "preProcessJD" -> preProcessJD
      [] task = "preprocessResume" -> preprocessResume
      [] task = "parseJobMetadata" ->
            IF MetadataTry.ok THEN [returned |-> TRUE, value |-> parseJobMetadata]
            ELSE [returned |-> FALSE, error |-> MetadataTry.error]
      [] task = "callOpenAI" -> callOpenAI
      [] task = "generateTailoredResume" -> generateTailoredResume

\* what the sub-task does once its completion call has settled
SubTaskOutcome(task) ==
    CASE task = "preProcessJD" -> preProcessJD
      [] task = "preprocessResume" -> preprocessResume
      [] task = "parseJobMetadata" -> [returned |-> TRUE, value |-> parseJobMetadata]
      [] task = "callOpenAI" -> callOpenAI
      [] task = "generateTailoredResume" -> generateTailoredResume

\* the sub-task's catch block runs
CatchRuns(task) ==
    IF task = "parseJobMetadata" THEN ~MetadataTry.ok
    ELSE ~SubTaskOutcome(task).returned

\* the completion call has settled: the sub-task returns or throws
DirectSettle ==
    /\ pc \in SubTasks
    /\ cpc \in {"returned", "thrown"}
    /\ subResult' = SubTaskOutcome(pc)
    /\ failed' = IF CatchRuns(pc) THEN failed \cup {pc} ELSE failed
    /\ pc' = "settled"
    /\ UNCHANGED <<apiKey, metadataHtmlString, structuredJD, parsedMetadata,
                   analysisResult, analyzeError, subError, clientVars, invoked,
                   resumeText, sanitizedResume>>

\* one sub-task called on its own, answered by any of the rich replies
SubTaskInit == Init /\ metadataHtmlString = Undefined

SubTaskNext ==
    \/ \E task \in SubTasks : \E arg \in ArgsOf(task) :
          DirectCall(task, arg) /\ UNCHANGED edgeVars
    \/ \E outcome \in RichOutcomes : HttpAttempt(outcome) /\ UNCHANGED edgeVars
    \/ BackoffElapsed /\ UNCHANGED edgeVars
    \/ DirectSettle /\ UNCHANGED edgeVars

SubTaskSpec == SubTaskInit /\ [][SubTaskNext]_vars

----------------------------------------------------------------------------
(* The HTTP layer: validateRequest, the handlers, asyncHandler, errorHandler *)

\* the requests of the model
Paths == {"/api/preprocess/jd", "/api/preprocess/resume", "/api/analyze"}

\* a text that passes validation ("Go engineer")
GoodText == Text(<<"G", "o", " ", "e", "n", "g", "i", "n", "e", "e", "r">>)

\* values of a required text field: absent, not a string, empty, blank, too
\* short, good
FieldValues ==
    {Undefined, Num(5), Text(<<>>), Text(<<" ", "\f">>), Text(<<"g", "o">>), GoodText}

\* values of structuredResume and of jobMetadata
ResumeValues == {Undefined, Obj([name |-> Str("Jo")]), Arr(<<>>)}
JobMetadataValues ==
    {Undefined, Obj([metadataHtmlString |-> Text(<<"<", "p", ">">>)])}

\* the JSON bodies of the requests to `path`
BodiesOf(path) ==
    CASE path = "/api/preprocess/jd" -> {Obj([jd |-> v]) : v \in FieldValues}
      [] path = "/api/preprocess/resume" -> {Obj([resumeText |-> v]) : v \in FieldValues}
      [] path = "/api/analyze" ->
            {Obj([jd |-> j, resume |-> r, structuredResume |-> s, jobMetadata |-> m]) :
                j \in {Undefined, Text(<<>>), GoodText},
                r \in {Undefined, Text(<<" ", "\f">>), GoodText},
                s \in ResumeValues, m \in JobMetadataValues}

Requests == UNION {{[path |-> p, body |-> b] : b \in BodiesOf(p)} : p \in Paths}

\* typeof value === "string"
IsString(v) == v.t = "text" \/ v.t = "string"

\* mutant: the length of the raw text is measured
validateTextLength_Raw(text, minLength, maxLength) ==
    Len(text.c) \in minLength..maxLength

\* validateTextLength(text, minLength, maxLength): the length of the
\* sanitized text is measured
validateTextLength(text, minLength, maxLength) ==
    Len(sanitizeText(text).c) \in minLength..maxLength

\* the rules each route passes to validateRequest
RulesOf(path) ==
    CASE path = "/api/preprocess/jd" ->
            <<[field |-> "jd", required |-> TRUE, minLength |-> 10, maxLength |-> 50000]>>
      [] path = "/api/preprocess/resume" ->
            <<[field |-> "resumeText", required |-> TRUE, minLength |-> 10,
               maxLength |-> 50000]>>
      [] path = "/api/analyze" ->
            <<[field |-> "jd", required |-> TRUE, minLength |-> 10, maxLength |-> 50000],
              [field |-> "resume", required |-> TRUE, minLength |-> 10,
               maxLength |-> 50000]>>

\* mutant: a blank text counts as present
RuleErrors_BlankAccepted(rule, body) ==
    LET value == Get(body, rule.field)
        minLength == IF rule.minLength # 0 THEN rule.minLength ELSE 10
        maxLength == IF rule.maxLength # 0 THEN rule.maxLength ELSE 50000
    IN IF rule.required /\ (~Truthy(value) \/ ~IsString(value))
       THEN <<"Field '" \o rule.field \o "' is required">>
       ELSE IF IsString(value) /\ ~validateTextLength(value, minLength, maxLength)
       THEN <<"Field '" \o rule.field \o "' must be between " \o ToString(minLength)
              \o " and " \o ToString(maxLength) \o " characters">>
       ELSE <<>>

\* what one rule pushes onto `errors`
RuleErrors(rule, body) ==
    LET value == Get(body, rule.field)
        minLength == IF rule.minLength # 0 THEN rule.minLength ELSE 10
        maxLength == IF rule.maxLength # 0 THEN rule.maxLength ELSE 50000
    IN IF rule.required
          /\ (~Truthy(value) \/ ~IsString(value) \/ Len(Trim(value.c)) = 0)
       THEN <<"Field '" \o rule.field \o "' is required">>
       ELSE IF ~rule.required /\ (~Truthy(value) \/ ~IsString(value)) THEN <<>>
       ELSE IF IsString(value) /\ ~validateTextLength(value, minLength, maxLength)
       THEN <<"Field '" \o rule.field \o "' must be between " \o ToString(minLength)
              \o " and " \o ToString(maxLength) \o " characters">>
       ELSE <<>>

RECURSIVE validateRequest(_, _)
\* validateRequest(rules): the errors collected over the rules, in order
\* (none: next() is called)
validateRequest(rules, body) ==
    IF rules = <<>> THEN <<>>
    ELSE RuleErrors(Head(rules), body) \o validateRequest(Tail(rules), body)

\* res.status(400).json({message: "Validation failed", statusCode: 400, errors})
ValidationFailed(errors) ==
    [status |-> 400,
     body |-> [message |-> "Validation failed", statusCode |-> 400, errors |-> errors]]

\* res.status(400).json({message, statusCode: 400}) of a handler
BadRequest(message) ==
    [status |-> 400, body |-> [message |-> message, statusCode |-> 400]]

\* err.stack of an Error: the header is the name alone when the message is
\* empty; the frames are not modelled
StackOf(err) ==
    Str((IF err.message = "" THEN err.name ELSE err.name \o ": " \o err.message)
        \o "\n    at <anonymous>")

\* mutant: the status of the upstream failure is passed on to the client
ErrorStatusCode_Upstream(err) ==
    IF lastError # Null /\ lastError.statusCode # NoStatus THEN lastError.statusCode
    ELSE 500

\* "statusCode" in err && typeof err.statusCode === "number" ? err.statusCode : 500
ErrorStatusCode(err) ==
    IF "statusCode" \in DOMAIN err /\ err.statusCode # NoStatus THEN err.statusCode
    ELSE 500

\* mutant: the stack is withheld in production only
errorHandler_UnlessProduction(err) ==
    LET errorStack == IF InstanceofError(err) THEN StackOf(err) ELSE Undefined
        response == [message |-> IF err.message # "" THEN err.message
                                 ELSE "Internal server error",
                     statusCode |-> ErrorStatusCode(err)]
    IN [status |-> ErrorStatusCode(err),
        body |-> IF NODE_ENV # Str("production") /\ Truthy(errorStack)
                 THEN response @@ [error |-> errorStack.s]
                 ELSE response]

\* errorHandler(err, req, res, next): the response it sends
errorHandler(err) ==
    LET errorStack == IF InstanceofError(err) THEN StackOf(err) ELSE Undefined
        response == [message |-> IF err.message # "" THEN err.message
                                 ELSE "Internal server error",
                     statusCode |-> ErrorStatusCode(err)]
    IN [status |-> ErrorStatusCode(err),
        body |-> IF NODE_ENV = Str("development") /\ Truthy(errorStack)
                 THEN response @@ [error |-> errorStack.s]
                 ELSE response]

\* a response is sent and the request is finished
Send(response) ==
    /\ sent' = Append(sent, response)
    /\ pc' = "done"
    /\ UNCHANGED <<apiKey, metadataHtmlString, structuredJD, parsedMetadata,
                   analysisResult, analyzeError, subError, clientVars, invoked,
                   failed, soloVars, req, analyzeController, NODE_ENV>>

\* preProcessJD(sanitizedJD) up to its first await (the model does not follow
\* the text into the prompt)
CallPreProcessJD ==
    /\ pc' = "preProcessJD"
    /\ Invoke("preProcessJD", Undefined)
    /\ UNCHANGED <<apiKey, metadataHtmlString, structuredJD, parsedMetadata,
                   analysisResult, analyzeError, subError, failed, soloVars, httpVars>>

\* preprocessResume(text) up to its first await
CallPreprocessResume(text) ==
    /\ resumeText' = text
    /\ sanitizedResume' = sanitizeText(Text(Substring(text.c, RESUME_MAX)))
    /\ pc' = "preprocessResume"
    /\ Invoke("preprocessResume", Undefined)
    /\ UNCHANGED <<apiKey, metadataHtmlString, structuredJD, parsedMetadata,
                   analysisResult, analyzeError, subError, failed, subResult, httpVars>>

\* preprocessJDHandler up to its first await
preprocessJDHandler ==
    LET jd == Get(req.body, "jd")
    IN IF ~Truthy(jd) \/ ~IsString(jd)
       THEN Send(BadRequest("Job description is required"))
       ELSE CallPreProcessJD

\* preprocessResumeHandler up to its first await
preprocessResumeHandler ==
    LET text == Get(req.body, "resumeText")
    IN IF ~Truthy(text) \/ ~IsString(text)
       THEN Send(BadRequest("Resume text is required"))
       ELSE CallPreprocessResume(sanitizeText(text))

\* analyze(sanitizedJD, resume, metadata) up to its first await
CallAnalyze(metadata) ==
    /\ metadataHtmlString' = metadata
    /\ pc' = "preProcessJD"
    /\ Invoke("preProcessJD", Undefined)
    /\ UNCHANGED <<apiKey, structuredJD, parsedMetadata, analysisResult,
                   analyzeError, subError, failed, soloVars, httpVars>>

\* analyzeHandler of the controller that takes a structured resume, up to its
\* first await
analyzeHandler ==
    LET jd == Get(req.body, "jd")
        structuredResume == Get(req.body, "structuredResume")
    IN IF ~Truthy(jd) \/ ~IsString(jd)
       THEN Send(BadRequest("Job description is required"))
       ELSE IF ~Truthy(structuredResume) \/ structuredResume.t # "object"
       THEN Send(BadRequest("Structured resume is required and must be an object"))
       ELSE CallAnalyze(Get(Get(req.body, "jobMetadata"), "metadataHtmlString"))

\* analyzeHandler of the controller that takes the raw resume text, up to its
\* first await
analyzeHandlerRawText ==
    LET jd == Get(req.body, "jd")
        resume == Get(req.body, "resume")
    IN IF ~Truthy(jd) \/ ~IsString(jd)
       THEN Send(BadRequest("Job description is required"))
       ELSE IF ~Truthy(resume) \/ ~IsString(resume)
       THEN Send(BadRequest("Resume is required"))
       ELSE CallAnalyze(Undefined)

\* validateRequest(rules) after its loop: the 400 response, or next()
AfterRules(errors) ==
    IF errors # <<>> THEN Send(ValidationFailed(errors))
    ELSE /\ pc' = "handler"
         /\ UNCHANGED <<apiKey, metadataHtmlString, structuredJD, parsedMetadata,
                        analysisResult, analyzeError, subError, clientVars, invoked,
                        failed, soloVars, httpVars>>

\* the first middleware of every route: validateRequest(rules of the route)
ValidateRequest ==
    /\ pc = "start"
    /\ AfterRules(validateRequest(RulesOf(req.path), req.body))

\* POST /api/preprocess/jd: asyncHandler(preprocessJDHandler)
PostPreprocessJD ==
    /\ pc = "handler"
    /\ req.path = "/api/preprocess/jd"
    /\ preprocessJDHandler

\* POST /api/preprocess/resume: asyncHandler(preprocessResumeHandler)
PostPreprocessResume ==
    /\ pc = "handler"
    /\ req.path = "/api/preprocess/resume"
    /\ preprocessResumeHandler

\* POST /api/analyze: asyncHandler(analyzeHandler), of the controller the
\* build resolves "../controllers/analyze.controller.js" to
PostAnalyze ==
    /\ pc = "handler"
    /\ req.path = "/api/analyze"
    /\ IF analyzeController = "structuredResume" THEN analyzeHandler
       ELSE analyzeHandlerRawText

\* the service has settled
ServiceSettled == pc \in {"returned", "thrown", "settled"}

\* the service returned a value to the handler
ServiceReturned == pc = "returned" \/ (pc = "settled" /\ subResult.returned)

\* the value the handler rethrows: asyncHandler passes it to errorHandler
ThrownToHandler == IF pc = "thrown" THEN analyzeError ELSE subResult.error

\* res.json(...) of the handler whose service returned
SuccessResponse ==
    [status |-> 200,
     body |-> CASE req.path = "/api/preprocess/jd" -> [structuredJD |-> subResult.value]
                [] req.path = "/api/preprocess/resume" ->
                      [structuredResume |-> subResult.value]
                [] req.path = "/api/analyze" -> analysisResult]

\* the handler resumes after its await: it sends the result, or rethrows
\* and asyncHandler hands the error to errorHandler
Respond ==
    /\ ServiceSettled
    /\ sent = <<>>
    /\ Send(IF ServiceReturned THEN SuccessResponse ELSE errorHandler(ThrownToHandler))

----------------------------------------------------------------------------
(* Specification of one HTTP request *)

AnalyzeControllers == {"structuredResume", "rawText"}

NodeEnvs == {Undefined, Str("development"), Str("production"), Str("test")}

\* upstream statuses of the requests' attempts
HttpStatuses == {NoStatus, 400, 401, 403, 404, 429, 500, 503}

\* what the transport does with one attempt of a request's completion call
HttpOutcomes ==
    {[ok |-> TRUE, content |-> c] : c \in {Undefined, Str("not json"), Str("{}")}}
    \cup {[ok |-> FALSE,
           error |-> [name |-> "AxiosError",
                      message |-> IF s = NoStatus THEN "Network Error"
                                  ELSE "Request failed with status code " \o ToString(s),
                      status |-> s, isError |-> TRUE]] : s \in HttpStatuses}

HttpInit ==
    /\ apiKey \in ApiKeys
    /\ metadataHtmlString = Undefined
    /\ ServiceIdle
    /\ req \in Requests
    /\ analyzeController \in AnalyzeControllers
    /\ NODE_ENV \in NodeEnvs
    /\ sent = <<>>
    /\ NoText
    /\ NoCalls
    /\ NoReplay

\* the service awaited by the handler is analyze
AwaitsAnalyze == req.path = "/api/analyze"

HttpNext ==
    \/ ValidateRequest /\ UNCHANGED beyondHttp
    \/ PostPreprocessJD /\ UNCHANGED beyondHttp
    \/ PostPreprocessResume /\ UNCHANGED beyondHttp
    \/ PostAnalyze /\ UNCHANGED beyondHttp
    \/ \E outcome \in HttpOutcomes : HttpAttempt(outcome) /\ UNCHANGED edgeVars
    \/ BackoffElapsed /\ UNCHANGED edgeVars
    \/ AwaitsAnalyze /\ AnalyzeAfterJD /\ UNCHANGED edgeVars
    \/ AwaitsAnalyze /\ AnalyzeAfterMetadata /\ UNCHANGED edgeVars
    \/ AwaitsAnalyze /\ AnalyzeAfterMatch /\ UNCHANGED edgeVars
    \/ AwaitsAnalyze /\ AnalyzeAfterTailor /\ UNCHANGED edgeVars
    \/ ~AwaitsAnalyze /\ DirectSettle /\ UNCHANGED edgeVars
    \/ Respond /\ UNCHANGED beyondHttp

HttpSpec == HttpInit /\ [][HttpNext]_vars

----------------------------------------------------------------------------
(* sanitizeText called on its own *)

\* longest text of the exhaustive family of inputs
MaxLen == 3

\* the characters of that family: a letter, a digit, whitespace (space,
\* newline, form feed), control characters (ESC, DEL), a non-ASCII letter,
\* punctuation of the patterns
InputChars == {"a", "7", " ", "\n", "\f", "", "", "é", "@", "."}

\* every text of at most MaxLen of these characters
ShortTexts == UNION {[1..n -> InputChars] : n \in 0..MaxLen}

\* texts longer than what sanitizeText returns: running text, and the same
\* interspersed with non-ASCII and control characters
LongTexts ==
    {RunningText(SANITIZED_MAX + 9),
     [i \in 1..(SANITIZED_MAX + 9) |->
         IF i % 5 = 0 THEN "é" ELSE IF i \in {7, 14} THEN "" ELSE "x"]}

\* values that are not strings
NonStrings == {Undefined, Null, Num(0), Num(42), Bool(TRUE), Arr(<<>>), Obj(<<>>)}

SanitizerInputs ==
    {Text(c) : c \in ShortTexts \cup LongTexts} \cup ResumeTexts \cup NonStrings

\* sanitizeText(text) is called and returns
Sanitize ==
    /\ cleanText = Undefined
    /\ cleanText' = sanitizeText(unsafeText)
    /\ UNCHANGED <<apiKey, metadataHtmlString, pc, structuredJD, parsedMetadata,
                   analysisResult, analyzeError, subError, clientVars, invoked,
                   failed, soloVars, httpVars, unsafeText, cleanTwice, calls,
                   replayVars>>

\* the service sanitizes the text the controller has sanitized:
\* sanitizeText(jd.substring(0, 6000)) of preProcessJD
SanitizeAgain ==
    /\ cleanText # Undefined
    /\ cleanTwice = Undefined
    /\ cleanTwice' = sanitizeText(Text(Substring(cleanText.c, SANITIZED_MAX)))
    /\ UNCHANGED <<apiKey, metadataHtmlString, pc, structuredJD, parsedMetadata,
                   analysisResult, analyzeError, subError, clientVars, invoked,
                   failed, soloVars, httpVars, unsafeText, cleanText, calls,
                   replayVars>>

SanitizerInit ==
    /\ apiKey = Undefined
    /\ metadataHtmlString = Undefined
    /\ ServiceIdle
    /\ NoRequest
    /\ unsafeText \in SanitizerInputs
    /\ cleanText = Undefined
    /\ cleanTwice = Undefined
    /\ NoCalls
    /\ NoReplay

SanitizerNext ==
    \/ Sanitize
    \/ SanitizeAgain

SanitizerSpec == SanitizerInit /\ [][SanitizerNext]_vars

----------------------------------------------------------------------------
(* Completion calls in flight at once *)

\* how many calls of callOpenAIChat run side by side
NumCalls == 2

CallIds == 1..NumCalls

\* what the transport does with one attempt of one of these calls
ConcurrentOutcomes ==
    {[ok |-> TRUE, content |-> c] : c \in {Undefined, Str("{}")}}
    \cup {[ok |-> FALSE,
           error |-> [name |-> "AxiosError",
                      message |-> "Request failed with status code " \o ToString(s),
                      status |-> s, isError |-> TRUE]] : s \in {401, 429, 503}}

\* the locals of a call that has not started
NotCalled ==
    [cpc |-> "idle", attempt |-> 0, lastError |-> Null, chatResult |-> Null,
     outcomes |-> <<>>, overlapped |-> FALSE]

\* the call is between its first attempt and its return or throw
InFlight(i) == calls[i].cpc \in {"request", "backoff"}

\* mutant: the loop counter is one variable of the module, advanced by every
\* call
attemptOf_ModuleLevel(i) ==
    LET RECURSIVE Sum(_)
        Sum(n) == IF n = 0 THEN 0 ELSE calls[n].attempt + Sum(n - 1)
    IN Sum(NumCalls)

\* for (let attempt = 0; ...): the counter of call i
attemptOf(i) == calls[i].attempt

\* call i of callOpenAIChat up to its first await
ConcurrentStart(i) ==
    /\ calls[i].cpc = "idle"
    /\ calls' = [calls EXCEPT ![i] =
          IF ~Truthy(apiKey)
          THEN [@ EXCEPT !.cpc = "thrown",
                         !.chatResult = NewError("OPENAI_API_KEY is not configured")]
          ELSE [@ EXCEPT !.cpc = "request"]]

\* axios.post of call i settles with `outcome`; the loop body of that call
\* runs to its next await, return or throw
ConcurrentAttempt(i, outcome) ==
    /\ calls[i].cpc = "request"
    /\ LET r == makeOpenAIRequest(outcome)
           e == createRetryableError(r.error)
           seen == [calls[i] EXCEPT
                       !.outcomes = Append(@, outcome),
                       !.overlapped = @ \/ \E j \in CallIds \ {i} : InFlight(j)]
       IN calls' = [calls EXCEPT ![i] =
            IF r.returned
            THEN [seen EXCEPT !.cpc = "returned", !.chatResult = r.content]
            ELSE IF ~e.isRetryable
            THEN [seen EXCEPT !.cpc = "thrown", !.lastError = e,
                              !.chatResult = handleNonRetryableError(e)]
            ELSE IF attemptOf(i) < MAX_RETRIES - 1
            THEN [seen EXCEPT !.cpc = "backoff", !.lastError = e]
            ELSE [seen EXCEPT !.cpc = "thrown", !.lastError = e,
                              !.attempt = @ + 1,
                              !.chatResult = ExhaustedError(e)]]

\* the backoff timer of call i fires; its loop issues the next attempt
ConcurrentBackoffElapsed(i) ==
    /\ calls[i].cpc = "backoff"
    /\ calls' = [calls EXCEPT ![i] = [@ EXCEPT !.cpc = "request", !.attempt = @ + 1]]

\* what a step of one of these calls leaves alone
OnlyCalls ==
    UNCHANGED <<apiKey, metadataHtmlString, pc, structuredJD, parsedMetadata,
                analysisResult, analyzeError, subError, clientVars, invoked,
                failed, soloVars, httpVars, sanitizerVars, replayVars>>

ConcurrentInit ==
    /\ apiKey \in ApiKeys
    /\ metadataHtmlString = Undefined
    /\ ServiceIdle
    /\ NoRequest
    /\ NoText
    /\ calls = [i \in CallIds |-> NotCalled]
    /\ NoReplay

ConcurrentNext ==
    \/ \E i \in CallIds : ConcurrentStart(i) /\ OnlyCalls
    \/ \E i \in CallIds : \E outcome \in ConcurrentOutcomes :
          ConcurrentAttempt(i, outcome) /\ OnlyCalls
    \/ \E i \in CallIds : ConcurrentBackoffElapsed(i) /\ OnlyCalls

ConcurrentSpec == ConcurrentInit /\ [][ConcurrentNext]_vars

----------------------------------------------------------------------------
(* One request served twice, under two values of OPENAI_API_KEY *)

\* process.env.OPENAI_API_KEY of the two runs: unset, empty, or one of two keys
ReplayKeys == ApiKeys \cup {Str("sk-other")}

ReplayNodeEnvs == {Str("development"), Str("production")}

\* what the transport does with one attempt of the request's completion call
ReplayOutcomes ==
    {[ok |-> TRUE, content |-> c] : c \in {Undefined, Str("{}")}}
    \cup {[ok |-> FALSE,
           error |-> [name |-> "AxiosError",
                      message |-> "Request failed with status code " \o ToString(s),
                      status |-> s, isError |-> TRUE]] : s \in {401, 404, 503}}

\* the first run is over and the second has begun
Rerunning == firstRun # Undefined

\* in the second run the transport does what it did in the first
Replayed(outcome) ==
    Rerunning =>
        /\ Len(upstream) < Len(firstRun.upstream)
        /\ outcome = firstRun.upstream[Len(upstream) + 1]

\* axios.post settles with `outcome`, which is recorded
UpstreamSettles(outcome) ==
    /\ Replayed(outcome)
    /\ HttpAttempt(outcome)
    /\ upstream' = Append(upstream, outcome)
    /\ UNCHANGED <<httpVars, sanitizerVars, calls, firstRun>>

\* the response of the first run is kept; the process is started again with
\* another value of the key and receives the same request
Rerun ==
    /\ pc = "done"
    /\ ~Rerunning
    /\ firstRun' = [apiKey |-> apiKey, upstream |-> upstream, sent |-> sent]
    /\ apiKey' \in ReplayKeys \ {apiKey}
    /\ metadataHtmlString' = Undefined
    /\ pc' = "start"
    /\ structuredJD' = Undefined
    /\ parsedMetadata' = Undefined
    /\ analysisResult' = Undefined
    /\ analyzeError' = Undefined
    /\ subError' = Undefined
    /\ cpc' = "idle"
    /\ attempt' = 0
    /\ lastError' = Null
    /\ chatResult' = Null
    /\ outcomes' = <<>>
    /\ waited' = <<>>
    /\ issued' = <<>>
    /\ invoked' = <<>>
    /\ failed' = {}
    /\ resumeText' = Undefined
    /\ sanitizedResume' = Undefined
    /\ subResult' = Undefined
    /\ sent' = <<>>
    /\ upstream' = <<>>
    /\ UNCHANGED <<req, analyzeController, NODE_ENV, sanitizerVars, calls>>

\* what the other steps of a run leave alone
OnlyRun == UNCHANGED <<sanitizerVars, calls, replayVars>>

ReplayInit ==
    /\ apiKey \in ReplayKeys
    /\ metadataHtmlString = Undefined
    /\ ServiceIdle
    /\ req \in Requests
    /\ analyzeController \in AnalyzeControllers
    /\ NODE_ENV \in ReplayNodeEnvs
    /\ sent = <<>>
    /\ NoText
    /\ NoCalls
    /\ NoReplay

ReplayNext ==
    \/ ValidateRequest /\ OnlyRun
    \/ PostPreprocessJD /\ OnlyRun
    \/ PostPreprocessResume /\ OnlyRun
    \/ PostAnalyze /\ OnlyRun
    \/ \E outcome \in ReplayOutcomes : UpstreamSettles(outcome)
    \/ BackoffElapsed /\ UNCHANGED edgeVars
    \/ AwaitsAnalyze /\ AnalyzeAfterJD /\ UNCHANGED edgeVars
    \/ AwaitsAnalyze /\ AnalyzeAfterMetadata /\ UNCHANGED edgeVars
    \/ AwaitsAnalyze /\ AnalyzeAfterMatch /\ UNCHANGED edgeVars
    \/ AwaitsAnalyze /\ AnalyzeAfterTailor /\ UNCHANGED edgeVars
    \/ ~AwaitsAnalyze /\ DirectSettle /\ UNCHANGED edgeVars
    \/ Respond /\ OnlyRun
    \/ Rerun

ReplaySpec == ReplayInit /\ [][ReplayNext]_vars

----------------------------------------------------------------------------
(* One analyze call whose attempts complete and whose timers fire *)

\* what the transport does with one attempt: a reply, an empty reply, a
\* failure that is retried and one that is not
FairOutcomes ==
    {[ok |-> TRUE, content |-> c] : c \in {Undefined, Str("{}")}}
    \cup {[ok |-> FALSE,
           error |-> [name |-> "AxiosError",
                      message |-> "Request failed with status code " \o ToString(s),
                      status |-> s, isError |-> TRUE]] : s \in {401, 503}}

\* the HTTP attempt in flight completes: axios.post settles with a response
\* or an error, at the latest when its 60-second timeout expires
AttemptCompletes == \E outcome \in FairOutcomes : HttpAttempt(outcome) /\ UNCHANGED edgeVars

\* the backoff timer set by setTimeout fires
TimerFires == BackoffElapsed /\ UNCHANGED edgeVars

\* analyze resumes after the await of a sub-task that has settled
AnalyzeResumes ==
    \/ AnalyzeAfterJD /\ UNCHANGED edgeVars
    \/ AnalyzeAfterMetadata /\ UNCHANGED edgeVars
    \/ AnalyzeAfterMatch /\ UNCHANGED edgeVars
    \/ AnalyzeAfterTailor /\ UNCHANGED edgeVars

FairNext ==
    \/ Analyze /\ UNCHANGED edgeVars
    \/ AttemptCompletes
    \/ TimerFires
    \/ AnalyzeResumes

\* every attempt completes, every timer fires, and the event loop runs the
\* continuation of a settled await
Fairness ==
    /\ WF_vars(AttemptCompletes)
    /\ WF_vars(TimerFires)
    /\ WF_vars(AnalyzeResumes)

FairSpec == Init /\ [][FairNext]_vars /\ Fairness

----------------------------------------------------------------------------
(* validateRequest on its own, with texts around the length bounds *)

\* a text of n characters `ch`
Repeat(ch, n) == [i \in 1..n |-> ch]

\* lengths around minLength
NearMin == 7..11

\* texts whose raw and sanitized lengths differ: leading whitespace or a
\* control character, trailing non-ASCII character or whitespace
EdgeTexts ==
    {Text(pre \o Repeat("x", n) \o post) :
        n \in NearMin,
        pre \in {<<>>, <<" ">>, <<"\f">>, <<"">>},
        post \in {<<>>, <<"é">>, <<"\f">>, <<" ", " ">>}}

\* raw texts longer than maxLength: running text, and control characters only
OverlongTexts == {Text(RunningText(50001)), Text(Repeat("", 50001))}

\* the requests validateRequest is given
ValidatedRequests ==
    {[path |-> "/api/preprocess/jd", body |-> Obj([jd |-> v])] :
        v \in EdgeTexts \cup OverlongTexts \cup FieldValues}
    \cup {[path |-> "/api/preprocess/resume", body |-> Obj([resumeText |-> v])] :
        v \in EdgeTexts}
    \cup {[path |-> "/api/analyze", body |-> Obj([jd |-> j, resume |-> r])] :
        j \in {Text(Repeat("x", 9)), Text(Repeat("x", 10))},
        r \in {Undefined, Text(Repeat("x", 9)), Text(Repeat("x", 10))}}

ValidationInit ==
    /\ apiKey = Str("sk-test")
    /\ metadataHtmlString = Undefined
    /\ ServiceIdle
    /\ req \in ValidatedRequests
    /\ analyzeController = "structuredResume"
    /\ NODE_ENV = Undefined
    /\ sent = <<>>
    /\ NoText
    /\ NoCalls
    /\ NoReplay

\* the middleware runs: it answers 400 or calls next()
ValidationNext == ValidateRequest /\ UNCHANGED beyondHttp

ValidationSpec == ValidationInit /\ [][ValidationNext]_vars

----------------------------------------------------------------------------
(* Vocabulary of the properties: the attempts of the current completion call *)

\* the outcome of the latest settled attempt
LastOutcome == outcomes[Len(outcomes)]

\* the attempt failed: the transport rejected, or the 2xx body had no content
AttemptFailed(o) == ~o.ok \/ ~Truthy(o.content)

\* HTTP status of a failed attempt (NoStatus when there is none)
FailureStatus(o) == IF o.ok THEN NoStatus ELSE o.error.status

\* attempts of the current call issued so far (settled or in flight)
AttemptsMade == Len(outcomes) + (IF cpc = "request" THEN 1 ELSE 0)

\* the call ended at the latest settled attempt without waiting after it
EndedAtLastAttempt ==
    /\ cpc = "thrown"
    /\ AttemptsMade = Len(outcomes)
    /\ Len(waited) = Len(outcomes) - 1

RECURSIVE Sum(_)
Sum(seq) == IF seq = <<>> THEN 0 ELSE Head(seq) + Sum(Tail(seq))

----------------------------------------------------------------------------
(* Properties of the completion client *)

\* C1: one call of callOpenAIChat issues at most 3 HTTP attempts; after a
\* third failed attempt no fourth attempt is in flight.
C1_AtMostThreeAttempts ==
    /\ AttemptsMade <= 3
    /\ (Len(outcomes) = 3 => cpc \in {"returned", "thrown"})

C1_Witness ==
    /\ Len(outcomes) = 3
    /\ \A i \in 1..3 : AttemptFailed(outcomes[i])
    /\ cpc = "thrown"

\* C2: a further attempt follows only an attempt that failed with status
\* 429, 500, 502 or 503; a failure with any other status or with no status
\* ends the call at that attempt, with no further attempt and no backoff.
C2_RetryOnlyOnRetryableStatus ==
    /\ \A i \in 1..Len(outcomes) :
          (i < Len(outcomes) \/ cpc \in {"request", "backoff"})
              => /\ AttemptFailed(outcomes[i])
                 /\ FailureStatus(outcomes[i]) \in {429, 500, 502, 503}
    /\ (/\ outcomes # <<>>
        /\ AttemptFailed(LastOutcome)
        /\ FailureStatus(LastOutcome) \notin {429, 500, 502, 503})
          => EndedAtLastAttempt

C2_Witness ==
    /\ Len(outcomes) = 2
    /\ FailureStatus(outcomes[1]) = 502
    /\ FailureStatus(outcomes[2]) = 504
    /\ cpc = "thrown"
    /\ waited = <<1000>>

\* C3: a 401 (a 400) fails the call at that attempt with the error
\* 'Invalid OpenAI API key' ('Invalid request to OpenAI API'), with no retry
\* and no delay; on the first attempt the attempt count is exactly 1.
C3_AuthAndBadRequestFailImmediately ==
    (outcomes # <<>> /\ FailureStatus(LastOutcome) \in {400, 401})
      => /\ EndedAtLastAttempt
         /\ chatResult.isError
         /\ chatResult.message =
               (IF FailureStatus(LastOutcome) = 401 THEN "Invalid OpenAI API key"
                ELSE "Invalid request to OpenAI API")
         /\ (Len(outcomes) = 1 => AttemptsMade = 1 /\ waited = <<>>)

C3_Witness ==
    /\ Len(outcomes) = 1
    /\ FailureStatus(outcomes[1]) = 401
    /\ cpc = "thrown"
    /\ chatResult.message = "Invalid OpenAI API key"

\* C4: after a retryable failure of attempt i (0-based) the call waits
\* 1000ms * 2^i before the next attempt (1000, then 2000) and nothing after
\* the final attempt; 429, 429, success returns the success content after a
\* total delay of exactly 3000ms.
C4_ExponentialBackoff ==
    /\ waited \in {<<>>, <<1000>>, <<1000, 2000>>}
    /\ Len(waited) = (IF cpc = "request" THEN Len(outcomes)
                      ELSE IF outcomes = <<>> THEN 0 ELSE Len(outcomes) - 1)
    /\ (/\ Len(outcomes) = 3
        /\ FailureStatus(outcomes[1]) = 429
        /\ FailureStatus(outcomes[2]) = 429
        /\ ~AttemptFailed(outcomes[3]))
          => /\ cpc = "returned"
             /\ chatResult = outcomes[3].content
             /\ Sum(waited) = 3000

C4_Witness ==
    /\ Len(outcomes) = 3
    /\ FailureStatus(outcomes[1]) = 429
    /\ FailureStatus(outcomes[2]) = 429
    /\ ~AttemptFailed(outcomes[3])
    /\ cpc = "returned"
    /\ Sum(waited) = 3000

\* C5: when all 3 attempts fail with a retryable status the call fails with
\* the aggregate error, whose message names the count 3 and the message of
\* the third failure, not of an earlier one.
C5_AggregateErrorNamesLastFailure ==
    (/\ Len(outcomes) = 3
     /\ \A i \in 1..3 : FailureStatus(outcomes[i]) \in {429, 500, 502, 503})
      => /\ cpc = "thrown"
         /\ chatResult.isError
         /\ chatResult.message =
               "OpenAI API call failed after 3 attempts: " \o outcomes[3].error.message

C5_Witness ==
    /\ Len(outcomes) = 3
    /\ \A i \in 1..3 : FailureStatus(outcomes[i]) \in {429, 500, 502, 503}
    /\ outcomes[3].error.message # outcomes[1].error.message
    /\ outcomes[3].error.message # outcomes[2].error.message
    /\ cpc = "thrown"
    /\ chatResult.message =
          "OpenAI API call failed after 3 attempts: Request failed with status code 503"

\* C6: a 2xx response whose first choice has empty or absent content fails
\* the call with 'Empty response from OpenAI API' at that attempt: it is
\* never retried, on whichever attempt it occurs.
C6_EmptyResponseNotRetried ==
    \A i \in 1..Len(outcomes) :
        (outcomes[i].ok /\ ~Truthy(outcomes[i].content))
          => /\ i = Len(outcomes)
             /\ EndedAtLastAttempt
             /\ chatResult.message = "Empty response from OpenAI API"

C6_Witness ==
    /\ Len(outcomes) = 2
    /\ outcomes[2].ok
    /\ outcomes[2].content = Undefined
    /\ cpc = "thrown"
    /\ waited = <<1000>>

\* C7: with OPENAI_API_KEY absent the client fails before issuing any HTTP
\* attempt, with no retry and no backoff delay.
C7_MissingKeyFailsBeforeAnyAttempt ==
    (apiKey \in {Undefined, Str("")})
      => /\ issued = <<>>
         /\ outcomes = <<>>
         /\ waited = <<>>
         /\ cpc \in {"idle", "thrown"}
         /\ (cpc = "thrown" => /\ chatResult.isError
                                /\ chatResult.message = "OPENAI_API_KEY is not configured")

C7_Witness ==
    /\ apiKey = Undefined
    /\ cpc = "thrown"
    /\ chatResult.message = "OPENAI_API_KEY is not configured"
    /\ issued = <<>>

\* C8 as stated: after a failure with a status other than 400, 401, 429,
\* 500, 502, 503, or with no status, the error raised is the transport's
\* error object itself, unchanged.
C8_RawTransportErrorPropagated ==
    (/\ outcomes # <<>>
     /\ ~LastOutcome.ok
     /\ FailureStatus(LastOutcome) \notin {400, 401, 429, 500, 502, 503})
      => /\ cpc = "thrown"
         /\ chatResult = LastOutcome.error

\* C8 (amended): after such a failure the value raised is a new plain object
\* (not an Error instance) named 'OpenAIError' that carries the transport
\* error's message ('OpenAI API request failed' when it is empty),
\* isRetryable = false and the transport status (absent when there is none).
C8_DerivedErrorPropagated ==
    (/\ outcomes # <<>>
     /\ ~LastOutcome.ok
     /\ FailureStatus(LastOutcome) \notin {400, 401, 429, 500, 502, 503})
      => /\ cpc = "thrown"
         /\ chatResult =
               [name |-> "OpenAIError",
                message |-> (IF LastOutcome.error.message = ""
                             THEN "OpenAI API request failed"
                             ELSE LastOutcome.error.message),
                isRetryable |-> FALSE,
                statusCode |-> LastOutcome.error.status,
                isError |-> FALSE]

C8_Witness ==
    /\ Len(outcomes) = 1
    /\ ~outcomes[1].ok
    /\ outcomes[1].error.status = 403
    /\ cpc = "thrown"
    /\ chatResult.name = "OpenAIError"

----------------------------------------------------------------------------
(* Properties of the orchestrator *)

\* the sub-task analyze awaits has settled with a failure of the completion
\* client or with a reply that is not valid JSON
SubTaskFails(task) ==
    /\ pc = task
    /\ \/ cpc = "thrown"
       \/ cpc = "returned" /\ chatResult.s \in InvalidJsonTexts

\* no attempt was issued on behalf of any of the sub-tasks `tasks`
NoneIssuedFor(tasks, log) == \A i \in 1..Len(log) : log[i] \notin tasks

\* C9: if JD extraction fails (client failure, empty content, reply that is
\* not valid JSON), analyze throws a wrapped error and issues no metadata,
\* match-analysis or tailored-resume completion call afterwards.
C9_JDFailureAborts ==
    [][ /\ SubTaskFails("preProcessJD")
          => /\ pc' = "thrown"
             /\ analyzeError'.isError
             /\ analyzeError'.message =
                   "Failed to analyze job description and resume: " \o subError'.message
             /\ analysisResult' = Undefined
             /\ NoneIssuedFor({"parseJobMetadata", "callOpenAI",
                               "generateTailoredResume"}, issued')
        /\ pc = "thrown" => issued' = issued
      ]_vars

C9_Witness ==
    /\ pc = "thrown"
    /\ structuredJD = Undefined
    /\ cpc = "returned"
    /\ chatResult.s \in InvalidJsonTexts
    /\ issued = <<"preProcessJD">>
    /\ metadataHtmlString = Text(<<"<", "p", ">">>)

\* C10: if match analysis fails (client failure or unparsable reply), analyze
\* throws: no result is returned and no tailored-resume completion call is
\* issued.
C10_MatchFailureAborts ==
    [][ /\ SubTaskFails("callOpenAI")
          => /\ pc' = "thrown"
             /\ analyzeError'.isError
             /\ analysisResult' = Undefined
             /\ NoneIssuedFor({"generateTailoredResume"}, issued')
        /\ pc = "thrown" => issued' = issued /\ analysisResult' = Undefined
      ]_vars

C10_Witness ==
    /\ pc = "thrown"
    /\ structuredJD # Undefined
    /\ cpc = "thrown"
    /\ Len(outcomes) = 3
    /\ issued[Len(issued)] = "callOpenAI"
    /\ analysisResult = Undefined

\* C11: the metadata step never aborts analyze: analyze throws only when JD
\* extraction or match analysis has failed, whatever JSON value the request
\* carries as metadata source.
C11_MetadataStepNeverAborts ==
    [][ pc' = "thrown" /\ pc # "thrown"
          => \/ pc = "preProcessJD" /\ ~preProcessJD.returned
             \/ pc = "callOpenAI" /\ ~callOpenAI.returned
      ]_vars

\* C12: when metadata extraction fails on a non-blank source and the other
\* sub-tasks succeed, the result has jobMetadata undefined while matchScore,
\* structuredJD and tailoredResume are populated.
C12_FailedMetadataIsAbsent ==
    ( /\ pc = "returned"
      /\ "parseJobMetadata" \in failed
      /\ "generateTailoredResume" \notin failed )
    => /\ analysisResult.jobMetadata = Undefined
       /\ analysisResult.matchScore # Undefined
       /\ analysisResult.structuredJD # Undefined
       /\ analysisResult.tailoredResume # Undefined

\* C13: if tailored-resume generation fails, analyze returns the result
\* assembled in step 4 unchanged: match-analysis fields, structuredJD and
\* jobMetadata as assembled, tailoredResume the all-empty placeholder.
C13_TailorFailureKeepsPlaceholder ==
    [][ ( /\ pc = "generateTailoredResume"
          /\ pc' # pc
          /\ ~generateTailoredResume.returned )
        => /\ pc' = "returned"
           /\ analysisResult' = analysisResult
           /\ analysisResult'.structuredJD = structuredJD
           /\ analysisResult'.jobMetadata = parsedMetadata
           /\ analysisResult'.tailoredResume =
                 [tailoredSummary |-> Str(""),
                  tailoredSkills |-> Arr(<<>>),
                  tailoredExperience |-> Arr(<<>>),
                  tailoredProjects |-> Arr(<<>>),
                  coverLetterHighlights |-> Arr(<<>>)]
      ]_vars

C13_Witness ==
    /\ pc = "returned"
    /\ "generateTailoredResume" \in failed
    /\ cpc = "thrown"
    /\ analysisResult.tailoredResume = EmptyTailoredResume
    /\ analysisResult.jobMetadata # Undefined

\* position of a sub-task in the order of analyze
TaskOrder(task) ==
    CASE task = "preProcessJD" -> 1
      [] task = "parseJobMetadata" -> 2
      [] task = "callOpenAI" -> 3
      [] task = "generateTailoredResume" -> 4

\* C14: the sub-tasks of one analyze call run one after the other in the
\* order JD extraction, metadata extraction, match analysis, tailoring: each
\* is invoked at most once, every completion attempt belongs to the sub-task
\* invoked last, a sub-task is invoked only once the completion call of the
\* previous one has settled, and match analysis and tailoring receive the
\* structured JD of step 1.
C14_SequentialSubTasks ==
    /\ [](/\ \A i, j \in 1..Len(invoked) :
                i < j => TaskOrder(invoked[i].task) < TaskOrder(invoked[j].task)
          /\ \A i, j \in 1..Len(issued) :
                i < j => TaskOrder(issued[i]) <= TaskOrder(issued[j])
          /\ \A i \in 1..Len(issued) :
                \E k \in 1..Len(invoked) : invoked[k].task = issued[i]
          /\ \A i \in 1..Len(invoked) :
                invoked[i].task \in {"callOpenAI", "generateTailoredResume"}
                  => /\ invoked[i].structuredJD # Undefined
                     /\ invoked[i].structuredJD = structuredJD)
    /\ [][ /\ issued' # issued
             => issued'[Len(issued')] = invoked'[Len(invoked')].task
           /\ (invoked' # invoked /\ invoked # <<>>)
             => cpc \in {"returned", "thrown"}
         ]_vars

C14_Witness ==
    /\ pc = "returned"
    /\ Len(invoked) = 4
    /\ Len(issued) > 4
    /\ failed = {}

----------------------------------------------------------------------------
(* Properties of the sub-tasks and their parsers *)

\* the sub-task that was called on its own
SoloTask == invoked[1].task

\* the sub-task `task`, called on its own, has settled
Settled(task) == pc = "settled" /\ SoloTask = task

\* the completion call returned text that parses as JSON
ReplyParsed == cpc = "returned" /\ JSONParse(chatResult.s).ok

\* the JSON value of the reply
Reply == JSONParse(chatResult.s).value

\* the content of the last 2xx response is malformed: not JSON, or empty
NonJsonReply ==
    /\ outcomes # <<>> /\ LastOutcome.ok
    /\ Truthy(LastOutcome.content) /\ LastOutcome.content.s \in InvalidJsonTexts
EmptyReply == outcomes # <<>> /\ LastOutcome.ok /\ ~Truthy(LastOutcome.content)

\* C15: an integer matchScore of the reply is clamped into [0,100] in the
\* match-analysis result (above 100 -> 100, below 0 -> 0, inside kept), and
\* an absent matchScore becomes 0.
C15_IntegerScoreClamped ==
    (Settled("callOpenAI") /\ ReplyParsed /\ Reply.t = "object")
      => LET m == Get(Reply, "matchScore")
         IN /\ m.t = "number"
                 => /\ subResult.returned
                    /\ m.n > 100 => subResult.value.matchScore = Num(100)
                    /\ m.n < 0 => subResult.value.matchScore = Num(0)
                    /\ m.n \in 0..100 => subResult.value.matchScore = m
            /\ m = Undefined
                 => subResult.returned /\ subResult.value.matchScore = Num(0)

C15_Witness ==
    /\ Settled("callOpenAI")
    /\ chatResult = Str("{\"matchScore\":150,\"matchedSkills\":[\"go\"],\"summary\":\"fit\"}")
    /\ subResult.returned
    /\ subResult.value.matchScore = Num(100)

\* C16: in every result analyze returns, matchScore is an integer within
\* [0,100], whatever JSON value the reply carried as matchScore.
C16_ScoreIsIntegerInRange ==
    pc = "returned"
      => /\ analysisResult.matchScore.t = "number"
         /\ analysisResult.matchScore.n \in 0..100

\* the list-typed fields of the entity a sub-task returns
ListFieldsOf(task) ==
    CASE task = "preProcessJD" ->
            {"educationRequirements", "responsibilities", "mustHaveSkills",
             "niceToHaveSkills", "technologies"}
      [] task = "preprocessResume" ->
            {"skills", "education", "experience", "projects", "certifications"}
      [] task = "parseJobMetadata" -> {"benefits"}
      [] task = "callOpenAI" ->
            {"matchedSkills", "missingSkills", "suggestions", "sampleBullets"}
      [] task = "generateTailoredResume" ->
            {"tailoredSkills", "tailoredExperience", "tailoredProjects",
             "coverLetterHighlights"}

\* value.field of a returned value (undefined when it has no such field)
FieldOf(value, field) ==
    IF "t" \in DOMAIN value THEN Get(value, field)
    ELSE IF field \in DOMAIN value THEN value[field] ELSE Undefined

\* C17: every list-typed field of every value a sub-task returns is present
\* and not null, for every JSON text the model may reply with.
C17_ListFieldsNeverNull ==
    (pc = "settled" /\ subResult.returned)
      => \A f \in ListFieldsOf(SoloTask) : ~Nullish(FieldOf(subResult.value, f))

\* C18: whenever preProcessJD returns, each of the 12 fields is neither null
\* nor undefined: a field absent from or null in the reply is "" (string
\* field) or the empty list (list field), a field present with a non-empty
\* value is returned unchanged.
C18_JDFieldsDefaulted ==
    (Settled("preProcessJD") /\ subResult.returned)
      => /\ DOMAIN subResult.value = StructuredJDFields
         /\ \A f \in StructuredJDFields :
               LET got == subResult.value[f]
                   given == Get(Reply, f)
               IN /\ ~Nullish(got)
                  /\ Nullish(given)
                       => got = IF f \in ListFieldsOf("preProcessJD")
                                THEN Arr(<<>>) ELSE Str("")
                  /\ (given.t = "string" /\ given.s # "") => got = given
                  /\ given.t = "array" => got = given

C18_Witness ==
    /\ Settled("preProcessJD")
    /\ chatResult = Str(FieldText("mustHaveSkills", Null))
    /\ subResult.returned
    /\ subResult.value.mustHaveSkills = Arr(<<>>)
    /\ subResult.value.title = Str("")

\* C19: when the reply is not valid JSON, preprocessResume does not raise: it
\* returns name, email, phone, location "", the five lists empty, and summary
\* the first 1000 characters of the sanitized input text.
C19_ResumeFallbackOnNonJson ==
    (Settled("preprocessResume") /\ cpc = "returned" /\ ~JSONParse(chatResult.s).ok)
      => /\ subResult.returned
         /\ subResult.value.t = "object"
         /\ DOMAIN subResult.value.f = StructuredResumeFields
         /\ \A f \in {"name", "email", "phone", "location"} :
               subResult.value.f[f] = Str("")
         /\ \A f \in ListFieldsOf("preprocessResume") :
               subResult.value.f[f] = Arr(<<>>)
         /\ LET sanitized == sanitizeText(Text(Substring(resumeText.c, 6000))).c
            IN subResult.value.f["summary"] =
                  Text(SubSeq(sanitized, 1, IF Len(sanitized) > 1000
                                            THEN 1000 ELSE Len(sanitized)))

C19_Witness ==
    /\ Settled("preprocessResume")
    /\ NonJsonReply
    /\ Len(resumeText.c) > 6000
    /\ subResult.returned
    /\ Len(subResult.value.f["summary"].c) = 1000

\* the sub-tasks other than resume preprocessing that need their reply
StrictTasks == {"preProcessJD", "callOpenAI", "generateTailoredResume"}

\* C20 as claimed: a malformed reply, not JSON or empty, is swallowed with the
\* fallback structure by preprocessResume and fails every other sub-task.
C20_MalformedSwallowedByResume ==
    (pc = "settled" /\ (NonJsonReply \/ EmptyReply))
      => /\ SoloTask = "preprocessResume"
              => /\ subResult.returned
                 /\ subResult.value.f["skills"] = Arr(<<>>)
         /\ SoloTask \in StrictTasks => ~subResult.returned

\* C20 amended: only a reply that is not JSON is swallowed with the fallback
\* structure by preprocessResume; empty or absent content makes
\* preprocessResume fail, and both kinds fail every other sub-task.
C20_OnlyNonJsonSwallowedByResume ==
    /\ (pc = "settled" /\ NonJsonReply)
         => /\ SoloTask = "preprocessResume"
                 => /\ subResult.returned
                    /\ subResult.value.f["skills"] = Arr(<<>>)
            /\ SoloTask \in StrictTasks => ~subResult.returned
    /\ (pc = "settled" /\ EmptyReply)
         => (SoloTask \in StrictTasks \cup {"preprocessResume"}
               => /\ ~subResult.returned
                  /\ subResult.error.isError)

C20_Witness ==
    /\ Settled("preprocessResume")
    /\ EmptyReply
    /\ ~subResult.returned
    /\ subResult.error.message = "Failed to preprocess resume: Unknown error"

----------------------------------------------------------------------------
(* Properties of the metadata parser *)

\* the flat field of the response, and the nested value of the reply it is
\* read from
MetadataPaths ==
    {<<"companyName", "company", "name">>,
     <<"companyLogoUrl", "company", "logo">>,
     <<"companyLinkedInUrl", "company", "linkedinUrl">>,
     <<"jobTitle", "job", "title">>,
     <<"location", "job", "location">>,
     <<"postedDate", "job", "posted">>,
     <<"jobType", "job", "employmentType">>}

\* C21: when the metadata reply parses as a JSON object, each flat field whose
\* nested source is present carries that value and each one whose source is
\* missing is "", independently of the others, also when the whole company or
\* job object is missing; salary, applicationDeadline, remote, benefits and
\* additionalInfo are always empty.
C21_MetadataFlattenedFieldwise ==
    (Settled("parseJobMetadata") /\ ReplyParsed /\ Reply.t = "object")
      => /\ \A p \in MetadataPaths :
               LET given == Get(Get(Reply, p[2]), p[3])
                   got == subResult.value[p[1]]
               IN /\ (given.t = "string" /\ given.s # "") => got = given
                  /\ Nullish(given) => got = Str("")
         /\ \A f \in {"salary", "applicationDeadline", "remote"} :
               subResult.value[f] = Str("")
         /\ subResult.value.benefits = Arr(<<>>)
         /\ subResult.value.additionalInfo = Obj(<<>>)

----------------------------------------------------------------------------
(* Properties of the retry loop as a whole *)

\* the attempt failed with a status the loop retries
RetryableFailure(o) == ~o.ok /\ isRetryableStatus(FailureStatus(o))

\* the call ended with the error thrown after the loop
AggregateRaised ==
    /\ cpc = "thrown"
    /\ lastError # Null
    /\ chatResult = ExhaustedError(lastError)

\* C30: the aggregate error is raised iff all three attempts failed with a
\* retryable status; otherwise the call ends with the outcome of the first
\* attempt that succeeded or failed non-retryably, after exactly that many
\* attempts and one delay before each attempt but the first.
C30_AggregateIffThreeRetryable ==
    (cpc \in {"returned", "thrown"} /\ outcomes # <<>>)
      => LET n == Len(outcomes)
             last == outcomes[n]
         IN /\ AggregateRaised
                 <=> (n = 3 /\ \A i \in 1..3 : RetryableFailure(outcomes[i]))
            /\ ~AggregateRaised
                 => /\ \A i \in 1..(n - 1) : RetryableFailure(outcomes[i])
                    /\ ~RetryableFailure(last)
                    /\ AttemptsMade = n
                    /\ waited = [i \in 1..(n - 1) |-> BackoffDelay(i - 1)]
                    /\ IF AttemptFailed(last)
                       THEN /\ cpc = "thrown"
                            /\ chatResult = handleNonRetryableError(
                                   createRetryableError(makeOpenAIRequest(last).error))
                       ELSE /\ cpc = "returned"
                            /\ chatResult = last.content

\* 429 then 401: the invalid-credential error after 2 attempts and one delay
C30_Witness ==
    /\ cpc = "thrown"
    /\ Len(outcomes) = 2
    /\ FailureStatus(outcomes[1]) = 429
    /\ FailureStatus(outcomes[2]) = 401
    /\ chatResult = NewError("Invalid OpenAI API key")
    /\ AttemptsMade = 2
    /\ waited = <<1000>>

----------------------------------------------------------------------------
(* Properties of the HTTP layer *)

\* the request has been answered
Answered == pc = "done"

\* the only response sent
Response == sent[1]

\* the body is one of the raw-text shape {jd, resume}
RawTextShape ==
    /\ Get(req.body, "jd") = GoodText
    /\ Get(req.body, "resume") = GoodText
    /\ Get(req.body, "structuredResume") = Undefined
    /\ Get(req.body, "jobMetadata") = Undefined

\* the body is one of the shape {jd, structuredResume, jobMetadata?}
StructuredShape ==
    /\ Get(req.body, "jd") = GoodText
    /\ Get(req.body, "structuredResume").t = "object"
    /\ Get(req.body, "resume") = Undefined

\* C22: a request {jd, resume} handled by the raw-text analyze entry point
\* issues completion calls for match analysis only.
C22_RawTextOnlyMatchAnalysis ==
    (req.path = "/api/analyze" /\ analyzeController = "rawText" /\ RawTextShape)
      => \A i \in DOMAIN issued : issued[i] = "callOpenAI"

\* the fields validateRequest requires on each route
RequiredFields(path) == {RulesOf(path)[i].field : i \in DOMAIN RulesOf(path)}

\* the field is missing, not a string, empty or blank
Unusable(v) == v.t # "text" \/ \A i \in DOMAIN v.c : v.c[i] \in WhiteSpace

\* C23: a request to one of the three routes whose required field is missing,
\* not a string, empty or blank is answered with exactly one response, a 400
\* that says the field is required, and no completion call is made.
C23_MissingFieldRejected ==
    \A f \in RequiredFields(req.path) :
        Unusable(Get(req.body, f))
          => /\ issued = <<>> /\ cpc = "idle"
             /\ Len(sent) <= 1
             /\ pc \in {"start", "done"}
             /\ Answered
                  => /\ Len(sent) = 1
                     /\ Response.status = 400
                     /\ Response.body.statusCode = 400
                     /\ \E i \in DOMAIN Response.body.errors :
                           Response.body.errors[i] = "Field '" \o f \o "' is required"

\* POST /api/analyze with jd = ""
C23_Witness ==
    /\ req.path = "/api/analyze"
    /\ Get(req.body, "jd") = Text(<<>>)
    /\ Get(req.body, "resume") = GoodText
    /\ Answered
    /\ sent = <<ValidationFailed(<<"Field 'jd' is required">>)>>
    /\ issued = <<>>

\* C24: POST /api/analyze accepts both documented shapes: a well-formed body
\* of either shape is never answered with a 400.
C24_BothShapesAccepted ==
    (req.path = "/api/analyze" /\ (RawTextShape \/ StructuredShape))
      => \A i \in DOMAIN sent : sent[i].status # 400

\* the sub-tasks whose failure the caller must see
MandatorySubTasks == {"preProcessJD", "preprocessResume", "callOpenAI"}

\* C25: whenever a mandatory sub-task has failed (the missing credential
\* included), whatever the upstream status, the request is answered with
\* exactly one response, and its status is 500.
C25_MandatoryFailureIs500 ==
    /\ Len(sent) <= 1
    /\ (Answered /\ failed \cap MandatorySubTasks # {})
         => /\ Len(sent) = 1
            /\ Response.status = 500
            /\ Response.body.statusCode = 500

\* JD extraction is refused upstream with a 401: the client gets a 500
C25_Witness ==
    /\ Answered
    /\ req.path = "/api/preprocess/jd"
    /\ failed = {"preProcessJD"}
    /\ lastError # Null
    /\ lastError.statusCode = 401
    /\ Len(sent) = 1
    /\ Response.status = 500
    /\ Response.body.message
         = "Failed to preprocess job description: Invalid OpenAI API key"

\* validateRequest has found an error in the body: the request is answered by
\* the middleware
Rejected == validateRequest(RulesOf(req.path), req.body) # <<>>

\* the response reports a failure
IsFailure(response) == response.status >= 400

\* C26 as stated: a response carries the `error` field only when NODE_ENV is
\* 'development'; for every failure and every other value of NODE_ENV the
\* body consists of message and statusCode only.
C26_FailureBodyIsMessageAndStatusCode ==
    \A i \in DOMAIN sent :
        /\ "error" \in DOMAIN sent[i].body => NODE_ENV = Str("development")
        /\ (IsFailure(sent[i]) /\ NODE_ENV # Str("development"))
             => DOMAIN sent[i].body = {"message", "statusCode"}

\* C26: a response carries the `error` field (the stack) only when NODE_ENV
\* is 'development'. The 400 of validateRequest consists of message,
\* statusCode and errors whatever NODE_ENV is; every other failure consists
\* of message and statusCode only when NODE_ENV is not 'development', and of
\* these two and at most `error` when it is.
C26_StackOnlyInDevelopment ==
    \A i \in DOMAIN sent :
        /\ "error" \in DOMAIN sent[i].body => NODE_ENV = Str("development")
        /\ IsFailure(sent[i])
             => IF Rejected
                THEN DOMAIN sent[i].body = {"message", "statusCode", "errors"}
                ELSE IF NODE_ENV # Str("development")
                THEN DOMAIN sent[i].body = {"message", "statusCode"}
                ELSE /\ {"message", "statusCode"} \subseteq DOMAIN sent[i].body
                     /\ DOMAIN sent[i].body \subseteq {"message", "statusCode", "error"}

\* a failure answered outside development and production
C26_Witness ==
    /\ NODE_ENV = Str("test")
    /\ Answered
    /\ failed = {"callOpenAI"}
    /\ Response.status = 500
    /\ DOMAIN Response.body = {"message", "statusCode"}

----------------------------------------------------------------------------
(* Properties of sanitizeText *)

\* sanitizeText has returned
Sanitized == cleanText # Undefined

\* C29: whatever the input, the output of sanitizeText is a string of at most
\* 6000 characters with no ASCII control character and no non-ASCII
\* character; for an input that is not a string, or is empty, it is "".
C29_SanitizedTextIsClean ==
    Sanitized
      => /\ cleanText.t = "text"
         /\ Len(cleanText.c) <= 6000
         /\ \A i \in DOMAIN cleanText.c :
               /\ cleanText.c[i] \notin ControlChars
               /\ cleanText.c[i] \in AsciiChars
         /\ (unsafeText.t # "text" \/ unsafeText.c = <<>>) => cleanText.c = <<>>

\* a text of more than 6000 characters with non-ASCII and control characters
\* in it is cut to 6000 clean characters
C29_Witness ==
    /\ Sanitized
    /\ unsafeText.t = "text"
    /\ Len(unsafeText.c) > 6000
    /\ \E i \in DOMAIN unsafeText.c : unsafeText.c[i] \notin AsciiChars
    /\ \E i \in DOMAIN unsafeText.c : unsafeText.c[i] \in ControlChars
    /\ Len(cleanText.c) = 6000

----------------------------------------------------------------------------
(* Properties of completion calls in flight at once *)

\* call i has returned or thrown
CallDone(i) == calls[i].cpc \in {"returned", "thrown"}

\* the failure is one the loop retries
Retried(outcome) ==
    /\ ~outcome.ok
    /\ outcome.error.status \in {429, 500, 502, 503}

\* what a call that saw the attempts `os`, and no others, returns or throws
OwnResult(os) ==
    LET last == os[Len(os)]
    IN IF last.ok /\ last.content \notin {Undefined, Null, Str("")}
       THEN last.content
       ELSE IF last.ok
       THEN [name |-> "OpenAIError", message |-> "Empty response from OpenAI API",
             isRetryable |-> FALSE, statusCode |-> NoStatus, isError |-> FALSE]
       ELSE IF last.error.status = 401 THEN NewError("Invalid OpenAI API key")
       ELSE IF last.error.status = 400 THEN NewError("Invalid request to OpenAI API")
       ELSE IF Retried(last)
       THEN NewError("OpenAI API call failed after 3 attempts: " \o last.error.message)
       ELSE [name |-> "OpenAIError", message |-> last.error.message,
             isRetryable |-> FALSE, statusCode |-> last.error.status,
             isError |-> FALSE]

\* C28: with several completion calls in flight at once, each call makes at
\* most 3 attempts of its own, gives up only after 3 retryable failures of
\* its own, and returns or throws what its own attempts determine.
C28_CallsAreIndependent ==
    \A i \in CallIds :
        /\ Len(calls[i].outcomes) <= 3
        /\ InFlight(i) =>
              \A k \in DOMAIN calls[i].outcomes : Retried(calls[i].outcomes[k])
        /\ (CallDone(i) /\ calls[i].outcomes # <<>>) =>
              /\ \A k \in 1..(Len(calls[i].outcomes) - 1) :
                    Retried(calls[i].outcomes[k])
              /\ Retried(calls[i].outcomes[Len(calls[i].outcomes)])
                    => Len(calls[i].outcomes) = 3
              /\ calls[i].chatResult = OwnResult(calls[i].outcomes)

\* a call has given up after 3 failed attempts of its own, all of them while
\* another call was in flight, and that other call has returned after a
\* single failure
C28_Witness ==
    \E i, j \in CallIds :
        /\ i # j
        /\ calls[i].cpc = "thrown"
        /\ Len(calls[i].outcomes) = 3
        /\ calls[i].overlapped
        /\ calls[j].cpc = "returned"
        /\ calls[j].overlapped
        /\ Len(calls[j].outcomes) = 2
        /\ calls[j].lastError.statusCode # calls[i].lastError.statusCode

----------------------------------------------------------------------------
(* Properties of the key *)

\* both runs are over and the transport did the same in both
SameUpstream ==
    /\ Rerunning
    /\ pc = "done"
    /\ upstream = firstRun.upstream

\* C27: two runs that differ only in the value of the key, with the same
\* request and the same upstream outcomes, send identical responses, be they
\* success bodies, 400 bodies or 500 bodies.
C27_KeyDoesNotInfluenceResponse ==
    SameUpstream => sent = firstRun.sent

\* the same request was served under two different keys, the upstream
\* rejected both with 401, and both runs answered 500
C27_Witness ==
    /\ SameUpstream
    /\ Truthy(apiKey)
    /\ Truthy(firstRun.apiKey)
    /\ apiKey # firstRun.apiKey
    /\ \E k \in DOMAIN upstream : ~upstream[k].ok /\ upstream[k].error.status = 401
    /\ sent[1].status = 500

----------------------------------------------------------------------------
(* Properties of the wrapped errors *)

\* the sub-tasks that wrap the errors of the completion client
WrappingSubTasks ==
    {"preProcessJD", "preprocessResume", "callOpenAI", "generateTailoredResume"}

\* the texts the wrapped messages begin with
WrapPrefixes ==
    {"Failed to preprocess job description: ", "Failed to preprocess resume: ",
     "Failed to analyze job description and resume: ",
     "Failed to generate tailored resume: "}

\* the sub-task called on its own failed because the completion client threw
ClientFailedSubTask ==
    /\ pc = "settled"
    /\ SoloTask \in WrappingSubTasks
    /\ cpc = "thrown"

\* C31: when a sub-task fails because the completion client failed, the
\* message of the wrapped error it raises ends with the message of the
\* client's error, whatever the kind of failure, and never with the
\* placeholder "Unknown error".
C31_WrappedMessageNamesClientError ==
    ClientFailedSubTask =>
        /\ ~subResult.returned
        /\ \E p \in WrapPrefixes : subResult.error.message = p \o chatResult.message
        /\ \A p \in WrapPrefixes : subResult.error.message # p \o "Unknown error"

----------------------------------------------------------------------------
(* Properties of parseJobMetadata as a whole *)

\* the metadata step failed: the completion client threw, the reply is not
\* JSON, or the data it should hold is missing
MetadataFailed ==
    \/ cpc = "thrown"
    \/ ~ReplyParsed
    \/ Nullish(Reply)
    \/ Nullish(Get(Reply, "company"))
    \/ Nullish(Get(Reply, "job"))

\* every string field of the record is "", benefits is [] and additionalInfo {}
AllEmptyMetadata(m) ==
    /\ DOMAIN m = {"companyLinkedInUrl", "companyLogoUrl", "companyName",
                   "jobTitle", "location", "salary", "postedDate",
                   "applicationDeadline", "jobType", "remote", "benefits",
                   "additionalInfo"}
    /\ m.benefits = Arr(<<>>)
    /\ m.additionalInfo = Obj(<<>>)
    /\ \A f \in DOMAIN m \ {"benefits", "additionalInfo"} : m[f] = Str("")

\* C32: called with a string, parseJobMetadata returns a metadata record and
\* never raises, whatever the completion client does; on any failure the
\* record is the all-empty one.
C32_MetadataNeverRaises ==
    Settled("parseJobMetadata") =>
        /\ subResult.returned
        /\ MetadataFailed => AllEmptyMetadata(subResult.value)

\* the completion call of parseJobMetadata was exhausted after three failed
\* attempts and the all-empty record was returned
C32_Witness ==
    /\ Settled("parseJobMetadata")
    /\ cpc = "thrown"
    /\ Len(outcomes) = 3
    /\ subResult.returned
    /\ AllEmptyMetadata(subResult.value)

----------------------------------------------------------------------------
(* Properties of the metadata step of analyze *)

\* the source is a string with a character that is not whitespace
NonBlankString(m) ==
    /\ m.t = "text"
    /\ \E i \in DOMAIN m.c : m.c[i] \notin {" ", "\t", "\n", "\f", "\r"}

\* the source is absent, the empty string or whitespace-only
BlankSource(m) ==
    \/ m = Undefined
    \/ m.t = "text" /\ \A i \in DOMAIN m.c : m.c[i] \in {" ", "\t", "\n", "\f", "\r"}

\* parseJobMetadata was invoked; a completion call was issued for it
MetadataInvoked == \E k \in DOMAIN invoked : invoked[k].task = "parseJobMetadata"
MetadataCallIssued == \E k \in DOMAIN issued : issued[k] = "parseJobMetadata"

\* analyze is past JD extraction, which succeeded
PastJD == structuredJD # Undefined

\* C33: when the metadata source is absent, empty or whitespace-only, analyze
\* issues no metadata completion call and the result it returns has
\* jobMetadata absent; once JD extraction has succeeded, metadata extraction
\* is attempted exactly when the source is a non-blank string.
C33_MetadataOnlyForNonBlankSource ==
    /\ BlankSource(metadataHtmlString) =>
          /\ ~MetadataInvoked
          /\ ~MetadataCallIssued
          /\ pc = "returned" => analysisResult.jobMetadata = Undefined
    /\ MetadataInvoked => NonBlankString(metadataHtmlString)
    /\ MetadataCallIssued => NonBlankString(metadataHtmlString)
    /\ (PastJD /\ NonBlankString(metadataHtmlString)) => MetadataInvoked

\* analyze returned for a whitespace-only source: three sub-tasks ran, and
\* the result has no jobMetadata
C33_Witness ==
    /\ pc = "returned"
    /\ metadataHtmlString.t = "text"
    /\ metadataHtmlString.c # <<>>
    /\ BlankSource(metadataHtmlString)
    /\ Len(invoked) = 3
    /\ analysisResult.jobMetadata = Undefined

----------------------------------------------------------------------------
(* Properties of termination *)

\* analyze has been called; it has returned a result or raised
AnalyzeCalled == pc # "start"
AnalyzeEnded == pc \in {"returned", "thrown"}

\* HTTP attempts issued on behalf of sub-task `task`
AttemptsFor(task) == Cardinality({k \in DOMAIN issued : issued[k] = task})

\* C34: if every HTTP attempt completes and every backoff timer fires, every
\* analyze call eventually returns a result or raises, and it never makes
\* more than 4 sub-task invocations nor more than 12 HTTP attempts, 3 per
\* sub-task.
C34_AnalyzeTerminatesWithinBudget ==
    /\ AnalyzeCalled ~> AnalyzeEnded
    /\ [](/\ Len(invoked) <= 4
          /\ Len(issued) <= 12
          /\ \A k \in DOMAIN invoked : AttemptsFor(invoked[k].task) <= 3)

\* analyze returned after 4 sub-task invocations of 3 attempts each
C34_Witness ==
    /\ pc = "returned"
    /\ Len(invoked) = 4
    /\ Len(issued) = 12

----------------------------------------------------------------------------
(* Properties of the length check *)

\* validateRequest has run
Validated == pc # "start"

\* the 400 response names the field; it names it for its length
FieldRejected(f) ==
    /\ sent # <<>>
    /\ sent[1].status = 400
    /\ \E k \in DOMAIN sent[1].body.errors :
          sent[1].body.errors[k]
              \in {"Field '" \o f \o "' is required",
                   "Field '" \o f \o "' must be between 10 and 50000 characters"}
FieldRejectedForLength(f) ==
    /\ sent # <<>>
    /\ \E k \in DOMAIN sent[1].body.errors :
          sent[1].body.errors[k]
              = "Field '" \o f \o "' must be between 10 and 50000 characters"

\* C35: validation rejects a string field with 400 exactly when the length of
\* its sanitized text lies outside [10, 50000]; the sanitized text has at most
\* 6000 characters, so the field is rejected for its length only when its
\* sanitized text is shorter than 10 characters, however long the raw text.
C35_RejectedIffSanitizedTooShort ==
    Validated =>
        \A f \in RequiredFields(req.path) :
            LET value == Get(req.body, f)
                n == Len(sanitizeText(value).c)
            IN value.t = "text" =>
                  /\ FieldRejected(f) <=> n \notin 10..50000
                  /\ n <= 6000
                  /\ FieldRejectedForLength(f) => n < 10
                  /\ n >= 10 => ~FieldRejected(f)

\* a raw text of more than 50000 characters passed validation
C35_Witness ==
    /\ pc = "handler"
    /\ req.path = "/api/preprocess/jd"
    /\ Len(Get(req.body, "jd").c) > 50000
    /\ sent = <<>>

----------------------------------------------------------------------------
(* Properties of the second sanitize pass *)

\* the text has a run of two or more spaces
HasSpaceRun(c) == \E i \in 1..(Len(c) - 1) : c[i] = " " /\ c[i + 1] = " "

\* C36: sanitizeText is idempotent: the second pass, which the service
\* applies to text the controller has sanitized, leaves it unchanged, and the
\* sanitized text holds no run of two or more spaces.
C36_SanitizeIdempotent ==
    cleanTwice # Undefined
      => /\ cleanTwice = cleanText
         /\ ~HasSpaceRun(cleanText.c)

====
